---- MODULE Spec2Model ----
(***************************************************************************)
(* Model of the EOS orchestration services:                                *)
(*   ExperimentService  (src/eos/orchestration/services/                   *)
(*                       experiment_service.py)                            *)
(*   LoadingService     (src/eos/orchestration/services/                   *)
(*                       loading_service.py)                               *)
(* Every coroutine is a process whose steps are the code between two       *)
(* suspension points (await / async with); the asyncio event loop runs one *)
(* such step at a time.                                                    *)
(***************************************************************************)
EXTENDS Integers, Sequences, FiniteSets, TLC

(***************************************************************************)
(* Bounds of the model.                                                    *)
(***************************************************************************)
\* asyncio.Queue(maxsize=100) at experiment_service.py:39, scaled down so
\* that a full queue is reachable; the behaviour is parametric in maxsize.
QueueMaxSize == 2
\* Number of cancel_experiment calls issued in one behaviour.
MaxCancelCalls == 5

\* experiment_loads counts the loads of a type modulo MaxLoads + 1.
MaxLoads == 2

Labs == {"L1", "L2"}
Tasks == {"K1", "K2"}
ExperimentIds == {"A", "B", "C"}
ExperimentTypes == {"T1", "T2"}
Priorities == {1, 5}
SubmitCallers == {"s1", "s2"}
CancelCallers == {"c1", "c2", "c3"}

VARIABLES
    experiments,                   \* configuration_manager.experiments (loaded types)
    submitted_experiments,         \* the registry: insertion-ordered dict id -> executor
    lock_owner,                    \* _experiment_submission_lock: who holds it
    lock_waiters,                  \* _experiment_submission_lock: FIFO of waiters
    experiment_cancellation_queue, \* asyncio.Queue of experiment ids
    putters,                       \* the queue's FIFO of suspended put() callers
    sub,                           \* submit_experiment coroutines
    can,                           \* cancel_experiment coroutines
    cancel_calls,                  \* number of cancel_experiment calls made
    tick,                          \* the process_experiments coroutine
    drain,                         \* the process_experiment_cancellations coroutine
    labs,                          \* configuration_manager.labs (loaded labs)
    device_labs,                   \* labs whose devices the device manager holds
    container_labs,                \* labs whose containers the container manager holds
    db_experiments,                \* persisted experiments: id -> [type, status]
    db_tasks,                      \* persisted tasks: id -> status
    loading_lock,                  \* _loading_lock: who holds it
    ul,                            \* an unload_labs coroutine
    ld,                            \* a load_labs coroutine
    xp,                            \* an unload_experiments or reload_experiments coroutine
    rl,                            \* a reload_labs coroutine
    rd,                            \* a reload_devices coroutine
    tp,                            \* a reload_task_plugins coroutine
    fr,                            \* a fail_running_experiments coroutine
    experiment_loads,              \* type -> times its configuration was loaded
    device_plugins,                \* device types whose plugin was hot-swapped
    task_plugins,                  \* task types whose plugin was hot-swapped
    reloaded_devices               \* devices the device manager has reloaded

\* The state of the LoadingService and of the managers it reads and writes.
\* The other coroutines of the LoadingService and what they write, and the
\* coroutine of fail_running_experiments.
reconfiguration_vars == <<xp, rl, rd, tp, fr, experiment_loads, device_plugins,
                          task_plugins, reloaded_devices>>

loading_vars == <<labs, device_labs, container_labs, db_experiments, db_tasks,
                  loading_lock, ul, ld, reconfiguration_vars>>

\* The state of the ExperimentService.
scheduling_vars == <<submitted_experiments, lock_owner, lock_waiters,
                     experiment_cancellation_queue, putters, sub, can, cancel_calls,
                     tick, drain>>

vars == <<experiments, scheduling_vars, loading_vars>>

(***************************************************************************)
(* Helpers on sequences and on the insertion-ordered dict.                 *)
(***************************************************************************)
Range(s) == {s[i] : i \in 1..Len(s)}

Ids(d) == {d[i].id : i \in 1..Len(d)}

Reverse(s) == [i \in 1..Len(s) |-> s[Len(s) + 1 - i]]

\* d[key] = executor : a new key goes to the end, an existing key keeps its place
DictSet(d, e) ==
    IF e.id \in Ids(d)
    THEN [i \in 1..Len(d) |-> IF d[i].id = e.id THEN e ELSE d[i]]
    ELSE Append(d, e)

\* d.pop(key, None) and, for a present key, del d[key]
DictPop(d, k) == SelectSeq(d, LAMBDA e : e.id # k)

NoCall == [pc |-> "idle", id |-> "none", type |-> "none", prio |-> 0, res |-> "none"]

NoTick == [pc |-> "idle", snap |-> <<>>, idx |-> 0, completed |-> <<>>,
           failed |-> <<>>, progressed |-> <<>>, start |-> <<>>, res |-> "none"]

NoDrain == [pc |-> "idle", ids |-> <<>>, st |-> <<>>, res |-> "none"]

NoLoading == [pc |-> "idle", labs |-> {}, todo |-> {}, cur |-> "none",
              active |-> {}, used |-> {}, res |-> "none"]

NoReloadLabs == [pc |-> "idle", labs |-> {}, todo |-> {}, cur |-> "none",
                 active |-> {}, experiments_to_reload |-> {}, res |-> "none"]

(***************************************************************************)
(* ExperimentService.__init__                                              *)
(***************************************************************************)
ExperimentServiceInit ==
    /\ submitted_experiments = <<>>
    /\ lock_owner = "none"
    /\ lock_waiters = <<>>
    /\ experiment_cancellation_queue = <<>>
    /\ putters = <<>>
    /\ sub = [c \in SubmitCallers |-> NoCall]
    /\ can = [c \in CancelCallers |-> NoCall]
    /\ cancel_calls = 0
    /\ tick = NoTick
    /\ drain = NoDrain

(***************************************************************************)
(* submit_experiment                                                       *)
(***************************************************************************)
\* Mutant: the type is never validated.
validate_experiment_type_skipped(type) == TRUE

\* _validate_experiment_type: TRUE when the type passes
validate_experiment_type(type) == type \in experiments

\* Mutant: the duplicate check is missing.
already_submitted_unchecked(id) == FALSE

\* `if experiment_id in self._submitted_experiments`
already_submitted(id) == id \in Ids(submitted_experiments)

\* The body of `async with self._experiment_submission_lock:` up to the
\* first suspension, entered by caller c once it holds the lock.
submission_critical_section(c, call) ==
    IF already_submitted(call.id)
    THEN \* warning, return: the lock is released on leaving the block
         /\ sub' = [sub EXCEPT ![c] = [call EXCEPT !.pc = "done", !.res = "ignored"]]
         /\ lock_owner' = "none"
    ELSE \* the executor is created and start_experiment is awaited
         /\ sub' = [sub EXCEPT ![c] = [call EXCEPT !.pc = "starting"]]
         /\ lock_owner' = c

\* A call of submit_experiment up to its first suspension.
submit_experiment(c, id, type, prio) ==
    LET call == [pc |-> "idle", id |-> id, type |-> type, prio |-> prio, res |-> "none"]
    IN  /\ sub[c].pc = "idle"
        /\ IF ~validate_experiment_type(type)
           THEN /\ sub' = [sub EXCEPT ![c] = [call EXCEPT !.pc = "done", !.res = "UnknownType"]]
                /\ UNCHANGED <<lock_owner, lock_waiters>>
           ELSE IF lock_owner = "none" /\ lock_waiters = <<>>
           THEN /\ submission_critical_section(c, call)
                /\ UNCHANGED lock_waiters
           ELSE /\ sub' = [sub EXCEPT ![c] = [call EXCEPT !.pc = "waiting"]]
                /\ lock_waiters' = Append(lock_waiters, c)
                /\ UNCHANGED lock_owner
        /\ UNCHANGED <<loading_vars, experiments, submitted_experiments, experiment_cancellation_queue,
                       putters, can, cancel_calls, tick, drain>>

\* The first waiter is woken by the release and takes the lock.
submit_experiment_acquire(c) ==
    /\ sub[c].pc = "waiting"
    /\ lock_owner = "none"
    /\ lock_waiters # <<>> /\ Head(lock_waiters) = c
    /\ lock_waiters' = Tail(lock_waiters)
    /\ submission_critical_section(c, sub[c])
    /\ UNCHANGED <<loading_vars, experiments, submitted_experiments, experiment_cancellation_queue,
                   putters, can, cancel_calls, tick, drain>>

\* start_experiment returned: the executor is registered, the lock released.
start_experiment_ok(c) ==
    /\ sub[c].pc = "starting"
    /\ submitted_experiments' =
           DictSet(submitted_experiments, [id |-> sub[c].id, prio |-> sub[c].prio])
    /\ sub' = [sub EXCEPT ![c].pc = "done", ![c].res = "submitted"]
    /\ lock_owner' = "none"
    /\ UNCHANGED <<loading_vars, experiments, lock_waiters, experiment_cancellation_queue,
                   putters, can, cancel_calls, tick, drain>>

\* Mutant: the executor was registered before the await and is not popped.
start_experiment_error_keeps_entry(c) ==
    /\ sub[c].pc = "starting"
    /\ submitted_experiments' =
           DictSet(submitted_experiments, [id |-> sub[c].id, prio |-> sub[c].prio])
    /\ sub' = [sub EXCEPT ![c].pc = "done", ![c].res = "ExecutionError"]
    /\ lock_owner' = "none"
    /\ UNCHANGED <<loading_vars, experiments, lock_waiters, experiment_cancellation_queue,
                   putters, can, cancel_calls, tick, drain>>

\* start_experiment raised EosExperimentExecutionError: pop, re-raise.
start_experiment_error(c) ==
    /\ sub[c].pc = "starting"
    /\ submitted_experiments' = DictPop(submitted_experiments, sub[c].id)
    /\ sub' = [sub EXCEPT ![c].pc = "done", ![c].res = "ExecutionError"]
    /\ lock_owner' = "none"
    /\ UNCHANGED <<loading_vars, experiments, lock_waiters, experiment_cancellation_queue,
                   putters, can, cancel_calls, tick, drain>>

\* The caller has its result and may call again.
submit_experiment_return(c) ==
    /\ sub[c].pc = "done"
    /\ sub' = [sub EXCEPT ![c] = NoCall]
    /\ UNCHANGED <<loading_vars, experiments, submitted_experiments, lock_owner, lock_waiters,
                   experiment_cancellation_queue, putters, can, cancel_calls, tick, drain>>

(***************************************************************************)
(* process_experiments                                                     *)
(***************************************************************************)
\* The driver loop awaits one of process_experiments and
\* process_experiment_cancellations at a time.
driver_idle == tick.pc = "idle" /\ drain.pc = "idle"

RECURSIVE InsertAscending(_, _)
\* e goes after every element whose key is not greater: a stable insertion
InsertAscending(s, e) ==
    IF s = <<>> THEN <<e>>
    ELSE IF e.prio < Head(s).prio THEN <<e>> \o s
    ELSE <<Head(s)>> \o InsertAscending(Tail(s), e)

RECURSIVE StableSortAscending(_)
StableSortAscending(s) ==
    IF s = <<>> THEN <<>>
    ELSE InsertAscending(StableSortAscending(SubSeq(s, 1, Len(s) - 1)), s[Len(s)])

\* Mutant: an ascending sort reversed afterwards, which reverses ties.
get_sorted_experiments_unstable(d) == Reverse(StableSortAscending(d))

\* sorted(items, key=priority, reverse=True): the list is reversed, sorted
\* by a stable ascending sort and reversed again, which keeps equal keys
\* in their original order.
get_sorted_experiments(d) == Reverse(StableSortAscending(Reverse(d)))

\* `del d[k]` for each k of ids in turn; a missing key raises KeyError and
\* ends the loop.
RECURSIVE DeleteEach(_, _)
DeleteEach(d, ids) ==
    IF ids = <<>> THEN [d |-> d, err |-> FALSE]
    ELSE IF Head(ids) \notin Ids(d) THEN [d |-> d, err |-> TRUE]
    ELSE DeleteEach(DictPop(d, Head(ids)), Tail(ids))

\* Start of a tick: return at once on an empty registry, otherwise snapshot
\* and sort.
process_experiments ==
    /\ driver_idle
    /\ submitted_experiments # <<>>
    /\ tick' = [pc |-> "running",
                snap |-> get_sorted_experiments(submitted_experiments),
                idx |-> 1, completed |-> <<>>, failed |-> <<>>,
                progressed |-> <<>>, start |-> submitted_experiments,
                res |-> "none"]
    /\ UNCHANGED <<loading_vars, experiments, submitted_experiments, lock_owner, lock_waiters,
                   experiment_cancellation_queue, putters, sub, can, cancel_calls, drain>>

\* Mutant: an EosExperimentExecutionError ends the loop.
progress_experiment_error_aborts(outcome) ==
    /\ tick.pc = "running"
    /\ tick.idx <= Len(tick.snap)
    /\ LET id == tick.snap[tick.idx].id
       IN  tick' = [tick EXCEPT
                      !.idx = IF outcome = "error" THEN Len(tick.snap) + 1 ELSE @ + 1,
                      !.progressed = Append(@, id),
                      !.completed = IF outcome = "true" THEN Append(@, id) ELSE @,
                      !.failed = IF outcome = "error" THEN Append(@, id) ELSE @]
    /\ UNCHANGED <<loading_vars, experiments, submitted_experiments, lock_owner, lock_waiters,
                   experiment_cancellation_queue, putters, sub, can, cancel_calls, drain>>

\* One iteration of the loop: a session is opened and progress_experiment
\* awaited; it returns False or True or raises EosExperimentExecutionError.
progress_experiment(outcome) ==
    /\ tick.pc = "running"
    /\ tick.idx <= Len(tick.snap)
    /\ LET id == tick.snap[tick.idx].id
       IN  tick' = [tick EXCEPT
                      !.idx = @ + 1,
                      !.progressed = Append(@, id),
                      !.completed = IF outcome = "true" THEN Append(@, id) ELSE @,
                      !.failed = IF outcome = "error" THEN Append(@, id) ELSE @]
    /\ UNCHANGED <<loading_vars, experiments, submitted_experiments, lock_owner, lock_waiters,
                   experiment_cancellation_queue, putters, sub, can, cancel_calls, drain>>

\* Mutant: only the completed ids are deleted.
process_experiments_cleanup_keeps_failed ==
    /\ tick.pc = "running"
    /\ tick.idx > Len(tick.snap)
    /\ LET r == DeleteEach(submitted_experiments, tick.completed)
       IN  /\ submitted_experiments' = r.d
           /\ tick' = [NoTick EXCEPT !.res = IF r.err THEN "KeyError" ELSE "done",
                                     !.completed = tick.completed,
                                     !.failed = tick.failed]
    /\ UNCHANGED <<loading_vars, experiments, lock_owner, lock_waiters,
                   experiment_cancellation_queue, putters, sub, can, cancel_calls, drain>>

\* Mutant: the clean-up writes the registry back from the tick's snapshot.
process_experiments_cleanup_from_snapshot ==
    /\ tick.pc = "running"
    /\ tick.idx > Len(tick.snap)
    /\ submitted_experiments' =
           SelectSeq(tick.start,
                     LAMBDA e : e.id \notin Range(tick.completed) \cup Range(tick.failed))
    /\ tick' = [NoTick EXCEPT !.res = "done",
                              !.completed = tick.completed,
                              !.failed = tick.failed]
    /\ UNCHANGED <<loading_vars, experiments, lock_owner, lock_waiters,
                   experiment_cancellation_queue, putters, sub, can, cancel_calls, drain>>

\* After the loop: completed, then failed ids are deleted from the registry.
\* (The idle record keeps the two lists of the last tick for inspection.)
process_experiments_cleanup ==
    /\ tick.pc = "running"
    /\ tick.idx > Len(tick.snap)
    /\ LET r == DeleteEach(submitted_experiments, tick.completed \o tick.failed)
       IN  /\ submitted_experiments' = r.d
           /\ tick' = [NoTick EXCEPT !.res = IF r.err THEN "KeyError" ELSE "done",
                                     !.completed = tick.completed,
                                     !.failed = tick.failed]
    /\ UNCHANGED <<loading_vars, experiments, lock_owner, lock_waiters,
                   experiment_cancellation_queue, putters, sub, can, cancel_calls, drain>>

(***************************************************************************)
(* cancel_experiment                                                       *)
(***************************************************************************)
\* asyncio.Queue.full()
queue_full == Len(experiment_cancellation_queue) >= QueueMaxSize

\* Mutant: a full queue drops the id instead of suspending the caller.
queue_put_drops_when_full(c, call) ==
    IF queue_full
    THEN /\ can' = [can EXCEPT ![c] = [call EXCEPT !.pc = "done", !.res = "enqueued"]]
         /\ UNCHANGED <<experiment_cancellation_queue, putters>>
    ELSE /\ can' = [can EXCEPT ![c] = [call EXCEPT !.pc = "done", !.res = "enqueued"]]
         /\ experiment_cancellation_queue' = Append(experiment_cancellation_queue, call.id)
         /\ UNCHANGED putters

\* `await queue.put(id)` from the test of full() on: the id is appended,
\* or the caller waits at the end of the queue's putters.  (res tells a put
\* that returned at once from one that returned after waiting.)
queue_put(c, call) ==
    IF queue_full
    THEN /\ can' = [can EXCEPT ![c] = [call EXCEPT !.pc = "suspended"]]
         /\ putters' = Append(putters, c)
         /\ UNCHANGED experiment_cancellation_queue
    ELSE /\ can' = [can EXCEPT ![c] =
                      [call EXCEPT !.pc = "done",
                                   !.res = IF call.pc = "woken" THEN "enqueued_late"
                                                                ELSE "enqueued"]]
         /\ experiment_cancellation_queue' = Append(experiment_cancellation_queue, call.id)
         /\ UNCHANGED putters

\* Mutant: the request is enqueued whether or not the id is registered.
cancel_target_registered_unchecked(id) == TRUE

\* `if experiment_id in self._submitted_experiments`
cancel_target_registered(id) == id \in Ids(submitted_experiments)

\* A call of cancel_experiment up to its first suspension.  With counted,
\* the call is one of at most MaxCancelCalls of the behaviour.
cancel_experiment(c, id, counted) ==
    LET call == [NoCall EXCEPT !.id = id]
    IN  /\ can[c].pc = "idle"
        /\ IF counted
           THEN /\ cancel_calls < MaxCancelCalls
                /\ cancel_calls' = cancel_calls + 1
           ELSE UNCHANGED cancel_calls
        /\ IF cancel_target_registered(id)
           THEN queue_put(c, call)
           ELSE /\ can' = [can EXCEPT ![c] = [call EXCEPT !.pc = "done", !.res = "noop"]]
                /\ UNCHANGED <<experiment_cancellation_queue, putters>>
        /\ UNCHANGED <<loading_vars, experiments, submitted_experiments, lock_owner, lock_waiters,
                       sub, tick, drain>>

\* A putter woken by a get() runs again: put() tests full() once more.
cancel_experiment_resume(c) ==
    /\ can[c].pc = "woken"
    /\ queue_put(c, can[c])
    /\ UNCHANGED <<loading_vars, experiments, submitted_experiments, lock_owner, lock_waiters,
                   sub, cancel_calls, tick, drain>>

\* The caller has returned and may call again.
cancel_experiment_return(c) ==
    /\ can[c].pc = "done"
    /\ can' = [can EXCEPT ![c] = NoCall]
    /\ UNCHANGED <<loading_vars, experiments, submitted_experiments, lock_owner, lock_waiters,
                   experiment_cancellation_queue, putters, sub, cancel_calls, tick, drain>>

(***************************************************************************)
(* process_experiment_cancellations                                        *)
(***************************************************************************)
Min(a, b) == IF a < b THEN a ELSE b

\* Start of a drain: `while not queue.empty(): ids.append(await queue.get())`
\* runs without suspending; each get() wakes the first waiting putter.
\* Nothing queued: return.  Otherwise the cancel coroutines are created
\* and gathered.
process_experiment_cancellations ==
    /\ driver_idle
    /\ experiment_cancellation_queue # <<>>
    /\ LET n == Min(Len(experiment_cancellation_queue), Len(putters))
           woken == {putters[i] : i \in 1..n}
       IN  /\ putters' = SubSeq(putters, n + 1, Len(putters))
           /\ can' = [c \in CancelCallers |->
                         IF c \in woken THEN [can[c] EXCEPT !.pc = "woken"] ELSE can[c]]
    /\ drain' = [pc |-> "gathering",
                 ids |-> experiment_cancellation_queue,
                 st |-> [i \in 1..Len(experiment_cancellation_queue) |-> "pending"],
                 res |-> "none"]
    /\ experiment_cancellation_queue' = <<>>
    /\ UNCHANGED <<loading_vars, experiments, submitted_experiments, lock_owner, lock_waiters,
                   sub, cancel_calls, tick>>

\* cancel(exp_id): the session is open and the executor is looked up in the
\* registry; a missing id raises KeyError, otherwise cancel_experiment is
\* awaited.
cancel_lookup(i) ==
    /\ drain.pc = "gathering"
    /\ i \in 1..Len(drain.ids)
    /\ drain.st[i] = "pending"
    /\ drain' = [drain EXCEPT !.st[i] =
                    IF drain.ids[i] \in Ids(submitted_experiments)
                    THEN "cancelling" ELSE "KeyError"]
    /\ UNCHANGED <<loading_vars, experiments, submitted_experiments, lock_owner, lock_waiters,
                   experiment_cancellation_queue, putters, sub, can, cancel_calls, tick>>

\* The executor's cancel_experiment returns or raises.
cancel_finish(i, outcome) ==
    /\ drain.pc = "gathering"
    /\ i \in 1..Len(drain.ids)
    /\ drain.st[i] = "cancelling"
    /\ drain' = [drain EXCEPT !.st[i] = outcome]
    /\ UNCHANGED <<loading_vars, experiments, submitted_experiments, lock_owner, lock_waiters,
                   experiment_cancellation_queue, putters, sub, can, cancel_calls, tick>>

CancelErrors == {"KeyError", "ExecutionError"}

\* Mutant: the drain drops the id whose cancel raised before it raises.
gather_raise_drops_failed(i) ==
    /\ drain.pc = "gathering"
    /\ i \in 1..Len(drain.ids)
    /\ drain.st[i] \in CancelErrors
    /\ submitted_experiments' = DictPop(submitted_experiments, drain.ids[i])
    /\ drain' = [NoDrain EXCEPT !.res = drain.st[i]]
    /\ UNCHANGED <<loading_vars, experiments, lock_owner, lock_waiters,
                   experiment_cancellation_queue, putters, sub, can, cancel_calls, tick>>

\* asyncio.gather without return_exceptions: the first exception of a
\* child is raised in the drain, which ends without touching the registry.
\* The other children go on in the background; they change nothing here.
gather_raise(i) ==
    /\ drain.pc = "gathering"
    /\ i \in 1..Len(drain.ids)
    /\ drain.st[i] \in CancelErrors
    /\ drain' = [NoDrain EXCEPT !.res = drain.st[i]]
    /\ UNCHANGED <<loading_vars, experiments, submitted_experiments, lock_owner, lock_waiters,
                   experiment_cancellation_queue, putters, sub, can, cancel_calls, tick>>

\* Every child returned: `for exp_id in experiment_ids: del registry[exp_id]`.
gather_return ==
    /\ drain.pc = "gathering"
    /\ \A i \in 1..Len(drain.ids) : drain.st[i] = "ok"
    /\ LET r == DeleteEach(submitted_experiments, drain.ids)
       IN  /\ submitted_experiments' = r.d
           /\ drain' = [NoDrain EXCEPT !.res = IF r.err THEN "KeyError" ELSE "done"]
    /\ UNCHANGED <<loading_vars, experiments, lock_owner, lock_waiters,
                   experiment_cancellation_queue, putters, sub, can, cancel_calls, tick>>

(***************************************************************************)
(* LoadingService: the configuration it reads                              *)
(***************************************************************************)
\* experiment_config.labs of each experiment type.
experiment_labs == [type \in ExperimentTypes |->
                        IF type = "T1" THEN {"L1"} ELSE {"L2"}]

\* task.experiment_id of each persisted task: K1 is a standalone task.
task_experiment_id == [t \in Tasks |-> IF t = "K1" THEN "on_demand" ELSE "A"]

\* The labs of task.devices of each persisted task.
task_device_labs == [t \in Tasks |-> {"L1"}]

\* experiment_manager.get_experiments(db, status=RUNNING)
get_experiments_running == {e \in ExperimentIds : db_experiments[e].status = "RUNNING"}

\* task_manager.get_tasks(db, status=status)
get_tasks(status) == {t \in Tasks : db_tasks[t] = status}

\* The filter of _check_tasks_using_devices with device_ids = None.
device_tasks(active_tasks, lab_id) ==
    {t \in active_tasks :
        /\ ~(task_experiment_id[t] # "" /\ task_experiment_id[t] # "on_demand")
        /\ lab_id \in task_device_labs[t]}

\* The usage predicate of a lab on the persisted state: a RUNNING experiment
\* has it in its configured lab set, or a RUNNING or CREATED standalone task
\* has a device in it.
lab_in_use(lab_id, exps, tasks) ==
    \/ \E e \in ExperimentIds :
          /\ exps[e].status = "RUNNING"
          /\ exps[e].type \in experiments
          /\ lab_id \in experiment_labs[exps[e].type]
    \/ \E t \in Tasks :
          /\ tasks[t] \in {"RUNNING", "CREATED"}
          /\ task_experiment_id[t] \in {"", "on_demand"}
          /\ lab_id \in task_device_labs[t]

(***************************************************************************)
(* The experiment and task executors, which persist the statuses           *)
(***************************************************************************)
\* History of an unload_labs call that is still before its mutation: the
\* labs of its set that have been in use at every moment since it began.
StillUsed(exps, tasks) ==
    IF ul.pc \in {"experiments", "tasks_running", "tasks_created", "wait_lock"}
    THEN [ul EXCEPT !.used = {l \in @ : lab_in_use(l, exps, tasks)}]
    ELSE ul

experiment_status(e, from, to) ==
    /\ db_experiments[e].status = from
    /\ from = "ABSENT" => db_experiments[e].type \in experiments
    /\ db_experiments' = [db_experiments EXCEPT ![e].status = to]
    /\ ul' = StillUsed(db_experiments', db_tasks)
    /\ UNCHANGED <<experiments, scheduling_vars, reconfiguration_vars, labs, device_labs, container_labs,
                   db_tasks, loading_lock, ld>>

task_status(t, from, to) ==
    /\ db_tasks[t] = from
    /\ db_tasks' = [db_tasks EXCEPT ![t] = to]
    /\ ul' = StillUsed(db_experiments, db_tasks')
    /\ UNCHANGED <<experiments, scheduling_vars, reconfiguration_vars, labs, device_labs, container_labs,
                   db_experiments, loading_lock, ld>>

(***************************************************************************)
(* load_labs                                                               *)
(***************************************************************************)
\* async with self._loading_lock, then configuration_manager.load_labs.
load_labs_locked(call) ==
    /\ loading_lock' = "load_labs"
    /\ labs' = labs \cup call.labs
    /\ ld' = [call EXCEPT !.pc = "update_devices"]

load_labs(lab_set) ==
    /\ ld.pc = "idle"
    /\ LET call == [NoLoading EXCEPT !.labs = lab_set]
       IN  IF loading_lock = "none"
           THEN load_labs_locked(call)
           ELSE /\ ld' = [call EXCEPT !.pc = "wait_lock"]
                /\ UNCHANGED <<labs, loading_lock>>
    /\ UNCHANGED <<experiments, scheduling_vars, reconfiguration_vars, device_labs, container_labs,
                   db_experiments, db_tasks, ul>>

load_labs_acquire ==
    /\ ld.pc = "wait_lock"
    /\ loading_lock = "none"
    /\ load_labs_locked(ld)
    /\ UNCHANGED <<experiments, scheduling_vars, reconfiguration_vars, device_labs, container_labs,
                   db_experiments, db_tasks, ul>>

\* await device_manager.update_devices(db, loaded_labs=labs)
load_labs_update_devices ==
    /\ ld.pc = "update_devices"
    /\ device_labs' = device_labs \cup ld.labs
    /\ ld' = [ld EXCEPT !.pc = "update_containers"]
    /\ UNCHANGED <<experiments, scheduling_vars, reconfiguration_vars, labs, container_labs,
                   db_experiments, db_tasks, loading_lock, ul>>

\* await container_manager.update_containers(db, loaded_labs=labs), and the
\* end of the async with block.
load_labs_update_containers ==
    /\ ld.pc = "update_containers"
    /\ container_labs' = container_labs \cup ld.labs
    /\ loading_lock' = "none"
    /\ ld' = NoLoading
    /\ UNCHANGED <<experiments, scheduling_vars, reconfiguration_vars, labs, device_labs,
                   db_experiments, db_tasks, ul>>

(***************************************************************************)
(* _check_lab_usage, one step per awaited query                            *)
(***************************************************************************)
\* _check_experiments_using_lab and the test of its result in
\* _check_lab_usage; the call goes on to the first query of
\* _check_tasks_using_devices.
check_experiments_using_lab(call) ==
    LET running_experiments == get_experiments_running
    IN  IF \E e \in running_experiments : db_experiments[e].type \notin experiments
        THEN [call EXCEPT !.pc = "done", !.res = "KeyError"]
        ELSE IF \E e \in running_experiments :
                    call.cur \in experiment_labs[db_experiments[e].type]
        THEN [call EXCEPT !.pc = "done", !.res = "ResourceInUse"]
        ELSE [call EXCEPT !.pc = "tasks_running"]

\* The first turn of the loop of _check_tasks_using_devices.
check_tasks_running(call) ==
    [call EXCEPT !.pc = "tasks_created", !.active = get_tasks("RUNNING")]

\* The second turn of the loop, the filter, and the test of its result in
\* _check_lab_usage.
check_tasks_created(call) ==
    LET active_tasks == call.active \cup get_tasks("CREATED")
    IN  IF device_tasks(active_tasks, call.cur) # {}
        THEN [call EXCEPT !.pc = "done", !.res = "ResourceInUse", !.active = {}]
        ELSE [call EXCEPT !.pc = "checked", !.active = {}]

(***************************************************************************)
(* unload_labs                                                             *)
(***************************************************************************)
\* The call begins the check of the first lab of the set; a set is iterated
\* in no particular order.
unload_labs(lab_set) ==
    /\ ul.pc = "idle"
    /\ \E lab_id \in lab_set :
          ul' = [NoLoading EXCEPT
                    !.pc = "experiments", !.labs = lab_set, !.todo = lab_set,
                    !.cur = lab_id,
                    !.used = {l \in lab_set : lab_in_use(l, db_experiments, db_tasks)}]
    /\ UNCHANGED <<experiments, scheduling_vars, reconfiguration_vars, labs, device_labs, container_labs,
                   db_experiments, db_tasks, loading_lock, ld>>

unload_labs_check_experiments ==
    /\ ul.pc = "experiments"
    /\ ul' = check_experiments_using_lab(ul)
    /\ UNCHANGED <<experiments, scheduling_vars, reconfiguration_vars, labs, device_labs, container_labs,
                   db_experiments, db_tasks, loading_lock, ld>>

unload_labs_check_tasks_running ==
    /\ ul.pc = "tasks_running"
    /\ ul' = check_tasks_running(ul)
    /\ UNCHANGED <<experiments, scheduling_vars, reconfiguration_vars, labs, device_labs, container_labs,
                   db_experiments, db_tasks, loading_lock, ld>>

\* async with self._loading_lock, then configuration_manager.unload_labs.
unload_labs_locked(call) ==
    /\ loading_lock' = "unload_labs"
    /\ labs' = labs \ call.labs
    /\ ul' = [call EXCEPT !.pc = "update_devices", !.cur = "none", !.todo = {}]

\* The last query of the check of one lab: the call fails, or goes on to the
\* next lab, or, after the last lab, to the lock.
unload_labs_check_tasks_created ==
    /\ ul.pc = "tasks_created"
    /\ LET call == check_tasks_created(ul)
           todo == ul.todo \ {ul.cur}
       IN  IF call.pc = "done"
           THEN ul' = call /\ UNCHANGED <<labs, loading_lock>>
           ELSE IF todo # {}
           THEN /\ \E lab_id \in todo :
                      ul' = [call EXCEPT !.pc = "experiments", !.todo = todo,
                                         !.cur = lab_id]
                /\ UNCHANGED <<labs, loading_lock>>
           ELSE IF loading_lock = "none"
           THEN unload_labs_locked(call)
           ELSE /\ ul' = [call EXCEPT !.pc = "wait_lock", !.todo = {}, !.cur = "none"]
                /\ UNCHANGED <<labs, loading_lock>>
    /\ UNCHANGED <<experiments, scheduling_vars, reconfiguration_vars, device_labs, container_labs,
                   db_experiments, db_tasks, ld>>

unload_labs_acquire ==
    /\ ul.pc = "wait_lock"
    /\ loading_lock = "none"
    /\ unload_labs_locked(ul)
    /\ UNCHANGED <<experiments, scheduling_vars, reconfiguration_vars, device_labs, container_labs,
                   db_experiments, db_tasks, ld>>

\* await device_manager.update_devices(db, unloaded_labs=labs)
unload_labs_update_devices ==
    /\ ul.pc = "update_devices"
    /\ device_labs' = device_labs \ ul.labs
    /\ ul' = [ul EXCEPT !.pc = "update_containers"]
    /\ UNCHANGED <<experiments, scheduling_vars, reconfiguration_vars, labs, container_labs,
                   db_experiments, db_tasks, loading_lock, ld>>

\* await container_manager.update_containers(db, unloaded_labs=labs), and the
\* end of the async with block.
unload_labs_update_containers ==
    /\ ul.pc = "update_containers"
    /\ container_labs' = container_labs \ ul.labs
    /\ loading_lock' = "none"
    /\ ul' = [ul EXCEPT !.pc = "done", !.res = "unloaded"]
    /\ UNCHANGED <<experiments, scheduling_vars, reconfiguration_vars, labs, device_labs,
                   db_experiments, db_tasks, ld>>

\* The caller has the outcome of the call.
unload_labs_return ==
    /\ ul.pc = "done"
    /\ ul' = NoLoading
    /\ UNCHANGED <<experiments, scheduling_vars, reconfiguration_vars, labs, device_labs, container_labs,
                   db_experiments, db_tasks, loading_lock, ld>>

(***************************************************************************)
(* load_experiments, unload_experiments, reload_experiments                *)
(***************************************************************************)
\* configuration_manager.load_experiments: the types are loaded from their
\* configuration, again if they were loaded already.
configuration_load_experiments(loads, types) ==
    [type \in ExperimentTypes |->
        IF type \in types THEN (loads[type] + 1) % (MaxLoads + 1) ELSE loads[type]]

\* load_experiments has no suspension point and takes no lock.
load_experiments(types) ==
    /\ types # {}
    /\ experiments' = experiments \cup types
    /\ experiment_loads' = configuration_load_experiments(experiment_loads, types)
    /\ UNCHANGED <<scheduling_vars, labs, device_labs, container_labs, db_experiments,
                   db_tasks, loading_lock, ul, ld, xp, rl, rd, tp, fr, device_plugins,
                   task_plugins, reloaded_devices>>

\* Mutant: no type is ever found in use.
check_experiment_usage_skipped(call) == [call EXCEPT !.pc = "checked"]

\* _check_experiment_usage: the RUNNING experiments of one type.
check_experiment_usage(call) ==
    IF \E e \in get_experiments_running : db_experiments[e].type = call.cur
    THEN [call EXCEPT !.pc = "done", !.res = "ResourceInUse"]
    ELSE [call EXCEPT !.pc = "checked"]

\* unload_experiments begins the check of a first type; it takes no lock.
unload_experiments(types) ==
    /\ xp.pc = "idle"
    /\ \E type \in types :
          xp' = [NoLoading EXCEPT !.pc = "unload_check", !.labs = types,
                                  !.todo = types, !.cur = type]
    /\ UNCHANGED <<experiments, scheduling_vars, labs, device_labs, container_labs,
                   db_experiments, db_tasks, loading_lock, ul, ld, rl, rd, tp, fr,
                   experiment_loads, device_plugins, task_plugins, reloaded_devices>>

\* The answer to the query of one type: the call fails, or checks the next
\* type, or, after the last, unloads the types.
unload_experiments_check ==
    /\ xp.pc = "unload_check"
    /\ LET call == check_experiment_usage(xp)
           todo == xp.todo \ {xp.cur}
       IN  IF call.pc = "done"
           THEN xp' = call /\ UNCHANGED experiments
           ELSE IF todo # {}
           THEN /\ \E type \in todo :
                      xp' = [call EXCEPT !.pc = "unload_check", !.todo = todo,
                                         !.cur = type]
                /\ UNCHANGED experiments
           ELSE /\ experiments' = experiments \ xp.labs
                /\ xp' = [call EXCEPT !.pc = "done", !.res = "unloaded",
                                      !.todo = {}, !.cur = "none"]
    /\ UNCHANGED <<scheduling_vars, labs, device_labs, container_labs,
                   db_experiments, db_tasks, loading_lock, ul, ld, rl, rd, tp, fr,
                   experiment_loads, device_plugins, task_plugins, reloaded_devices>>

\* async with self._loading_lock, then the check of a first type.
reload_experiments_locked(call) ==
    /\ loading_lock' = "reload_experiments"
    /\ \E type \in call.labs :
          xp' = [call EXCEPT !.pc = "reload_check", !.todo = call.labs, !.cur = type]

reload_experiments(types) ==
    /\ xp.pc = "idle"
    /\ LET call == [NoLoading EXCEPT !.labs = types]
       IN  IF loading_lock = "none"
           THEN reload_experiments_locked(call)
           ELSE /\ xp' = [call EXCEPT !.pc = "reload_wait_lock"]
                /\ UNCHANGED loading_lock
    /\ UNCHANGED <<experiments, scheduling_vars, labs, device_labs, container_labs,
                   db_experiments, db_tasks, ul, ld, rl, rd, tp, fr,
                   experiment_loads, device_plugins, task_plugins, reloaded_devices>>

reload_experiments_acquire ==
    /\ xp.pc = "reload_wait_lock"
    /\ loading_lock = "none"
    /\ reload_experiments_locked(xp)
    /\ UNCHANGED <<experiments, scheduling_vars, labs, device_labs, container_labs,
                   db_experiments, db_tasks, ul, ld, rl, rd, tp, fr,
                   experiment_loads, device_plugins, task_plugins, reloaded_devices>>

\* The answer to the query of one type: the call fails and leaves the lock,
\* or checks the next type, or, after the last, unloads and loads the types
\* and leaves the lock.
reload_experiments_check ==
    /\ xp.pc = "reload_check"
    /\ LET call == check_experiment_usage(xp)
           todo == xp.todo \ {xp.cur}
       IN  IF call.pc = "done"
           THEN /\ xp' = call
                /\ loading_lock' = "none"
                /\ UNCHANGED <<experiments, experiment_loads>>
           ELSE IF todo # {}
           THEN /\ \E type \in todo :
                      xp' = [call EXCEPT !.pc = "reload_check", !.todo = todo,
                                         !.cur = type]
                /\ UNCHANGED <<experiments, experiment_loads, loading_lock>>
           ELSE /\ experiments' = (experiments \ xp.labs) \cup xp.labs
                /\ experiment_loads' =
                       configuration_load_experiments(experiment_loads, xp.labs)
                /\ loading_lock' = "none"
                /\ xp' = [call EXCEPT !.pc = "done", !.res = "reloaded",
                                      !.todo = {}, !.cur = "none"]
    /\ UNCHANGED <<scheduling_vars, labs, device_labs, container_labs,
                   db_experiments, db_tasks, ul, ld, rl, rd, tp, fr,
                   device_plugins, task_plugins, reloaded_devices>>

\* The caller of unload_experiments or reload_experiments has the outcome.
experiments_return ==
    /\ xp.pc = "done"
    /\ xp' = NoLoading
    /\ UNCHANGED <<experiments, scheduling_vars, labs, device_labs, container_labs,
                   db_experiments, db_tasks, loading_lock, ul, ld, rl, rd, tp, fr,
                   experiment_loads, device_plugins, task_plugins, reloaded_devices>>

(***************************************************************************)
(* reload_labs                                                             *)
(***************************************************************************)
\* The device types of lab_config.devices of each lab.
lab_device_types == [lab_id \in Labs |-> IF lab_id = "L1" THEN {"D1"} ELSE {"D2"}]

\* _get_experiments_for_labs: the loaded types with one of the labs in
\* their lab set.
get_experiments_for_labs(lab_types) ==
    {type \in experiments : experiment_labs[type] \cap lab_types # {}}

\* async with self._loading_lock, _get_experiments_for_labs, and the start
\* of the check of a first lab.
reload_labs_locked(call) ==
    /\ loading_lock' = "reload_labs"
    /\ \E lab_id \in call.labs :
          rl' = [call EXCEPT !.pc = "experiments", !.todo = call.labs, !.cur = lab_id,
                             !.experiments_to_reload = get_experiments_for_labs(call.labs)]

\* Mutant: a failed hot-swap is told after the labs were unloaded.
reload_labs_plugin_error_after_unload(call) ==
    /\ rl' = [call EXCEPT !.pc = "done", !.res = "PluginReloadError"]
    /\ labs' = labs \ call.labs
    /\ UNCHANGED loading_lock

\* reload_plugin raised: the call re-raises before it takes the lock.
reload_labs_plugin_error(call) ==
    /\ rl' = [call EXCEPT !.pc = "done", !.res = "PluginReloadError"]
    /\ UNCHANGED <<labs, loading_lock>>

\* The call hot-swaps the plugin of every device type of the labs, one after
\* the other; failed is the type whose hot-swap raises, or "none", and
\* swapped the types hot-swapped before it.
reload_labs(lab_types, failed, swapped) ==
    /\ rl.pc = "idle"
    /\ LET device_types == UNION {lab_device_types[l] : l \in lab_types}
           call == [NoReloadLabs EXCEPT !.labs = lab_types]
       IN  /\ failed \in device_types \cup {"none"}
           /\ swapped \subseteq device_types \ {failed}
           /\ failed = "none" => swapped = device_types
           /\ device_plugins' = device_plugins \cup swapped
           /\ IF failed # "none"
              THEN reload_labs_plugin_error(call)
              ELSE IF loading_lock = "none"
              THEN reload_labs_locked(call) /\ UNCHANGED labs
              ELSE /\ rl' = [call EXCEPT !.pc = "wait_lock"]
                   /\ UNCHANGED <<labs, loading_lock>>
    /\ UNCHANGED <<experiments, scheduling_vars, device_labs, container_labs,
                   db_experiments, db_tasks, ul, ld, xp, rd, tp, fr,
                   experiment_loads, task_plugins, reloaded_devices>>

reload_labs_acquire ==
    /\ rl.pc = "wait_lock"
    /\ loading_lock = "none"
    /\ reload_labs_locked(rl)
    /\ UNCHANGED <<experiments, scheduling_vars, labs, device_labs, container_labs,
                   db_experiments, db_tasks, ul, ld, xp, rd, tp, fr,
                   experiment_loads, device_plugins, task_plugins, reloaded_devices>>

\* The first query of _check_lab_usage; a failure leaves the lock.
reload_labs_check_experiments ==
    /\ rl.pc = "experiments"
    /\ rl' = check_experiments_using_lab(rl)
    /\ loading_lock' = IF rl'.pc = "done" THEN "none" ELSE loading_lock
    /\ UNCHANGED <<experiments, scheduling_vars, labs, device_labs, container_labs,
                   db_experiments, db_tasks, ul, ld, xp, rd, tp, fr,
                   experiment_loads, device_plugins, task_plugins, reloaded_devices>>

reload_labs_check_tasks_running ==
    /\ rl.pc = "tasks_running"
    /\ rl' = check_tasks_running(rl)
    /\ UNCHANGED <<experiments, scheduling_vars, labs, device_labs, container_labs,
                   db_experiments, db_tasks, loading_lock, ul, ld, xp, rd, tp, fr,
                   experiment_loads, device_plugins, task_plugins, reloaded_devices>>

\* The last query of the check of one lab: the call fails and leaves the
\* lock, or goes on to the next lab, or, after the last lab, unloads the
\* labs from the configuration.
reload_labs_check_tasks_created ==
    /\ rl.pc = "tasks_created"
    /\ LET call == check_tasks_created(rl)
           todo == rl.todo \ {rl.cur}
       IN  IF call.pc = "done"
           THEN rl' = call /\ loading_lock' = "none" /\ UNCHANGED labs
           ELSE IF todo # {}
           THEN /\ \E lab_id \in todo :
                      rl' = [call EXCEPT !.pc = "experiments", !.todo = todo,
                                         !.cur = lab_id]
                /\ UNCHANGED <<labs, loading_lock>>
           ELSE /\ labs' = labs \ rl.labs
                /\ rl' = [call EXCEPT !.pc = "unload_devices", !.todo = {},
                                      !.cur = "none"]
                /\ UNCHANGED loading_lock
    /\ UNCHANGED <<experiments, scheduling_vars, device_labs, container_labs,
                   db_experiments, db_tasks, ul, ld, xp, rd, tp, fr,
                   experiment_loads, device_plugins, task_plugins, reloaded_devices>>

\* await device_manager.update_devices(db, unloaded_labs=lab_types)
reload_labs_unload_devices ==
    /\ rl.pc = "unload_devices"
    /\ device_labs' = device_labs \ rl.labs
    /\ rl' = [rl EXCEPT !.pc = "unload_containers"]
    /\ UNCHANGED <<experiments, scheduling_vars, labs, container_labs,
                   db_experiments, db_tasks, loading_lock, ul, ld, xp, rd, tp, fr,
                   experiment_loads, device_plugins, task_plugins, reloaded_devices>>

\* await container_manager.update_containers(db, unloaded_labs=lab_types),
\* then configuration_manager.load_labs.
reload_labs_unload_containers ==
    /\ rl.pc = "unload_containers"
    /\ container_labs' = container_labs \ rl.labs
    /\ labs' = labs \cup rl.labs
    /\ rl' = [rl EXCEPT !.pc = "load_devices"]
    /\ UNCHANGED <<experiments, scheduling_vars, device_labs,
                   db_experiments, db_tasks, loading_lock, ul, ld, xp, rd, tp, fr,
                   experiment_loads, device_plugins, task_plugins, reloaded_devices>>

\* await device_manager.update_devices(db, loaded_labs=lab_types)
reload_labs_load_devices ==
    /\ rl.pc = "load_devices"
    /\ device_labs' = device_labs \cup rl.labs
    /\ rl' = [rl EXCEPT !.pc = "load_containers"]
    /\ UNCHANGED <<experiments, scheduling_vars, labs, container_labs,
                   db_experiments, db_tasks, loading_lock, ul, ld, xp, rd, tp, fr,
                   experiment_loads, device_plugins, task_plugins, reloaded_devices>>

\* Mutant: the experiment types to reload are left as they are.
reload_labs_skips_experiments(types) ==
    UNCHANGED <<experiments, experiment_loads>>

\* await self.load_experiments(experiments_to_reload)
reload_labs_load_experiments(types) ==
    IF types = {}
    THEN UNCHANGED <<experiments, experiment_loads>>
    ELSE /\ experiments' = experiments \cup types
         /\ experiment_loads' = configuration_load_experiments(experiment_loads, types)

\* await container_manager.update_containers(db, loaded_labs=lab_types),
\* then load_experiments, and the end of the async with block.
reload_labs_load_containers ==
    /\ rl.pc = "load_containers"
    /\ container_labs' = container_labs \cup rl.labs
    /\ reload_labs_load_experiments(rl.experiments_to_reload)
    /\ loading_lock' = "none"
    /\ rl' = [rl EXCEPT !.pc = "done", !.res = "reloaded"]
    /\ UNCHANGED <<scheduling_vars, labs, device_labs,
                   db_experiments, db_tasks, ul, ld, xp, rd, tp, fr,
                   device_plugins, task_plugins, reloaded_devices>>

\* The caller has the outcome of the call.
reload_labs_return ==
    /\ rl.pc = "done"
    /\ rl' = NoReloadLabs
    /\ UNCHANGED <<experiments, scheduling_vars, labs, device_labs, container_labs,
                   db_experiments, db_tasks, loading_lock, ul, ld, xp, rd, tp, fr,
                   experiment_loads, device_plugins, task_plugins, reloaded_devices>>

(***************************************************************************)
(* reload_devices                                                          *)
(***************************************************************************)
DeviceIds == {"d1", "d2"}

\* The devices, as <<lab, device id>>, of task.devices of each persisted task.
task_devices == [t \in Tasks |-> {<<"L1", "d1">>}]

\* The devices that the tasks of the task graph of each experiment type
\* name, as <<task.lab, device id>>.
experiment_task_devices ==
    [type \in ExperimentTypes |->
        IF type = "T1" THEN {<<"L1", "d1">>} ELSE {<<"L2", "d1">>}]

NoReloadDevices == [pc |-> "idle", cur |-> "none", devices |-> {}, active |-> {},
                    created |-> {}, res |-> "none"]

\* async with self._loading_lock, then the test that the lab is loaded; the
\* EosConfigurationError leaves the lock.
reload_devices_locked(call) ==
    IF call.cur \notin labs
    THEN /\ rd' = [call EXCEPT !.pc = "done", !.res = "ConfigurationError"]
         /\ loading_lock' = "none"
    ELSE /\ loading_lock' = "reload_devices"
         /\ rd' = [call EXCEPT !.pc = "experiments"]

reload_devices(lab_id, device_ids) ==
    /\ rd.pc = "idle"
    /\ LET call == [NoReloadDevices EXCEPT !.cur = lab_id, !.devices = device_ids]
       IN  IF loading_lock = "none"
           THEN reload_devices_locked(call)
           ELSE /\ rd' = [call EXCEPT !.pc = "wait_lock"]
                /\ UNCHANGED loading_lock
    /\ UNCHANGED <<experiments, scheduling_vars, labs, device_labs, container_labs,
                   db_experiments, db_tasks, ul, ld, xp, rl, tp, fr,
                   experiment_loads, device_plugins, task_plugins, reloaded_devices>>

reload_devices_acquire ==
    /\ rd.pc = "wait_lock"
    /\ loading_lock = "none"
    /\ reload_devices_locked(rd)
    /\ UNCHANGED <<experiments, scheduling_vars, labs, device_labs, container_labs,
                   db_experiments, db_tasks, ul, ld, xp, rl, tp, fr,
                   experiment_loads, device_plugins, task_plugins, reloaded_devices>>

\* _check_experiments_using_devices and the test of its result in
\* _check_device_usage.
check_experiments_using_devices(call) ==
    LET running_experiments == get_experiments_running
    IN  IF \E e \in running_experiments : db_experiments[e].type \notin experiments
        THEN [call EXCEPT !.pc = "done", !.res = "KeyError"]
        ELSE IF \E e \in running_experiments :
                    /\ call.cur \in experiment_labs[db_experiments[e].type]
                    /\ \E d \in call.devices :
                          <<call.cur, d>> \in experiment_task_devices[db_experiments[e].type]
        THEN [call EXCEPT !.pc = "done", !.res = "ResourceInUse"]
        ELSE [call EXCEPT !.pc = "tasks_running"]

reload_devices_check_experiments ==
    /\ rd.pc = "experiments"
    /\ rd' = check_experiments_using_devices(rd)
    /\ loading_lock' = IF rd'.pc = "done" THEN "none" ELSE loading_lock
    /\ UNCHANGED <<experiments, scheduling_vars, labs, device_labs, container_labs,
                   db_experiments, db_tasks, ul, ld, xp, rl, tp, fr,
                   experiment_loads, device_plugins, task_plugins, reloaded_devices>>

\* The first turn of the loop of _check_tasks_using_devices; created is the
\* history of the tasks that were CREATED at that moment.
reload_devices_check_tasks_running ==
    /\ rd.pc = "tasks_running"
    /\ rd' = [rd EXCEPT !.pc = "tasks_created", !.active = get_tasks("RUNNING"),
                        !.created = get_tasks("CREATED")]
    /\ UNCHANGED <<experiments, scheduling_vars, labs, device_labs, container_labs,
                   db_experiments, db_tasks, loading_lock, ul, ld, xp, rl, tp, fr,
                   experiment_loads, device_plugins, task_plugins, reloaded_devices>>

\* The filter of _check_tasks_using_devices with a list of device ids.
device_tasks_of(active_tasks, lab_id, device_ids) ==
    {t \in active_tasks :
        /\ ~(task_experiment_id[t] # "" /\ task_experiment_id[t] # "on_demand")
        /\ \E d \in device_ids : <<lab_id, d>> \in task_devices[t]}

\* The second turn of the loop, the filter and the test of its result in
\* _check_device_usage: the call fails and leaves the lock, or delegates to
\* device_manager.reload_devices.
reload_devices_check_tasks_created ==
    /\ rd.pc = "tasks_created"
    /\ LET active_tasks == rd.active \cup get_tasks("CREATED")
       IN  IF device_tasks_of(active_tasks, rd.cur, rd.devices) # {}
           THEN /\ rd' = [rd EXCEPT !.pc = "done", !.res = "ResourceInUse",
                                    !.active = {}, !.created = {}]
                /\ loading_lock' = "none"
           ELSE /\ rd' = [rd EXCEPT !.pc = "reload", !.active = {}]
                /\ UNCHANGED loading_lock
    /\ UNCHANGED <<experiments, scheduling_vars, labs, device_labs, container_labs,
                   db_experiments, db_tasks, ul, ld, xp, rl, tp, fr,
                   experiment_loads, device_plugins, task_plugins, reloaded_devices>>

\* await device_manager.reload_devices(db, lab_id, device_ids), and the end
\* of the async with block.
reload_devices_delegate ==
    /\ rd.pc = "reload"
    /\ reloaded_devices' = reloaded_devices \cup {<<rd.cur, d>> : d \in rd.devices}
    /\ loading_lock' = "none"
    /\ rd' = [rd EXCEPT !.pc = "done", !.res = "reloaded", !.created = {}]
    /\ UNCHANGED <<experiments, scheduling_vars, labs, device_labs, container_labs,
                   db_experiments, db_tasks, ul, ld, xp, rl, tp, fr,
                   experiment_loads, device_plugins, task_plugins>>

\* The caller has the outcome of the call.
reload_devices_return ==
    /\ rd.pc = "done"
    /\ rd' = NoReloadDevices
    /\ UNCHANGED <<experiments, scheduling_vars, labs, device_labs, container_labs,
                   db_experiments, db_tasks, loading_lock, ul, ld, xp, rl, tp, fr,
                   experiment_loads, device_plugins, task_plugins, reloaded_devices>>

(***************************************************************************)
(* reload_task_plugins                                                     *)
(***************************************************************************)
TaskTypes == {"P1", "P2"}

\* task.type of each persisted task.
task_type == [t \in Tasks |-> IF t = "K1" THEN "P1" ELSE "P2"]

\* task_manager.get_tasks(db, status=status, type=task_type)
get_tasks_of_type(status, type) == {t \in Tasks : db_tasks[t] = status /\ task_type[t] = type}

NoReloadTasks == [pc |-> "idle", labs |-> {}, todo |-> {}, cur |-> "none",
                  active |-> {}, swapped |-> {}, res |-> "none"]

\* async with self._loading_lock, then the first query of the check of a
\* first type.
reload_task_plugins_locked(call) ==
    /\ loading_lock' = "reload_task_plugins"
    /\ \E type \in call.labs :
          tp' = [call EXCEPT !.pc = "tasks_running", !.todo = call.labs, !.cur = type]

reload_task_plugins(task_types) ==
    /\ tp.pc = "idle"
    /\ LET call == [NoReloadTasks EXCEPT !.labs = task_types]
       IN  IF loading_lock = "none"
           THEN reload_task_plugins_locked(call)
           ELSE /\ tp' = [call EXCEPT !.pc = "wait_lock"]
                /\ UNCHANGED loading_lock
    /\ UNCHANGED <<experiments, scheduling_vars, labs, device_labs, container_labs,
                   db_experiments, db_tasks, ul, ld, xp, rl, rd, fr,
                   experiment_loads, device_plugins, task_plugins, reloaded_devices>>

reload_task_plugins_acquire ==
    /\ tp.pc = "wait_lock"
    /\ loading_lock = "none"
    /\ reload_task_plugins_locked(tp)
    /\ UNCHANGED <<experiments, scheduling_vars, labs, device_labs, container_labs,
                   db_experiments, db_tasks, ul, ld, xp, rl, rd, fr,
                   experiment_loads, device_plugins, task_plugins, reloaded_devices>>

\* The first turn of the loop of _check_task_usage.
reload_task_plugins_check_running ==
    /\ tp.pc = "tasks_running"
    /\ tp' = [tp EXCEPT !.pc = "tasks_created",
                        !.active = get_tasks_of_type("RUNNING", tp.cur)]
    /\ UNCHANGED <<experiments, scheduling_vars, labs, device_labs, container_labs,
                   db_experiments, db_tasks, loading_lock, ul, ld, xp, rl, rd, fr,
                   experiment_loads, device_plugins, task_plugins, reloaded_devices>>

\* Mutant: a type that has passed its check is hot-swapped before the next
\* type is checked.
swapped_before_next_check_each(call) == {call.cur}

\* The types hot-swapped when a type has passed its check and another type
\* is still to check: the first loop of reload_task_plugins only checks.
swapped_before_next_check(call) == {}

\* The second turn of the loop of _check_task_usage and its test: the call
\* fails and leaves the lock, or goes on to the next type, or, after the
\* last type, hot-swaps the plugins one after the other and leaves the lock;
\* failed is the type whose hot-swap raises, or "none".
reload_task_plugins_check_created(failed, swapped) ==
    /\ tp.pc = "tasks_created"
    /\ LET active_tasks == tp.active \cup get_tasks_of_type("CREATED", tp.cur)
           todo == tp.todo \ {tp.cur}
           remaining == tp.labs \ tp.swapped
       IN  IF active_tasks # {}
           THEN /\ failed = "none" /\ swapped = {}
                /\ tp' = [tp EXCEPT !.pc = "done", !.res = "ResourceInUse", !.active = {}]
                /\ loading_lock' = "none"
                /\ UNCHANGED task_plugins
           ELSE IF todo # {}
           THEN /\ failed = "none" /\ swapped = {}
                /\ \E type \in todo :
                      tp' = [tp EXCEPT !.pc = "tasks_running", !.todo = todo,
                                       !.cur = type, !.active = {},
                                       !.swapped = @ \cup swapped_before_next_check(tp)]
                /\ task_plugins' = task_plugins \cup swapped_before_next_check(tp)
                /\ UNCHANGED loading_lock
           ELSE /\ failed \in remaining \cup {"none"}
                /\ swapped \subseteq remaining \ {failed}
                /\ failed = "none" => swapped = remaining
                /\ task_plugins' = task_plugins \cup swapped
                /\ loading_lock' = "none"
                /\ tp' = [tp EXCEPT !.pc = "done", !.todo = {}, !.active = {},
                                    !.swapped = @ \cup swapped,
                                    !.res = IF failed = "none" THEN "reloaded"
                                            ELSE "PluginReloadError"]
    /\ UNCHANGED <<experiments, scheduling_vars, labs, device_labs, container_labs,
                   db_experiments, db_tasks, ul, ld, xp, rl, rd, fr,
                   experiment_loads, device_plugins, reloaded_devices>>

\* The caller has the outcome of the call.
reload_task_plugins_return ==
    /\ tp.pc = "done"
    /\ tp' = NoReloadTasks
    /\ UNCHANGED <<experiments, scheduling_vars, labs, device_labs, container_labs,
                   db_experiments, db_tasks, loading_lock, ul, ld, xp, rl, rd, fr,
                   experiment_loads, device_plugins, task_plugins, reloaded_devices>>

(***************************************************************************)
(* fail_running_experiments                                                *)
(***************************************************************************)
NoFailRunning == [pc |-> "idle", running_experiments |-> {}, todo |-> {},
                  calls |-> 0, res |-> "none"]

\* Mutant: the status of the experiment is left as it is.
fail_experiment_skipped(exps, e) == exps

\* experiment_manager.fail_experiment(db, experiment.id)
fail_experiment(exps, e) == [exps EXCEPT ![e].status = "FAILED"]

\* The call issues the query of the RUNNING experiments; calls tells whether
\* it is the first call or a later one.
fail_running_experiments ==
    /\ fr.pc = "idle"
    /\ fr' = [fr EXCEPT !.pc = "query", !.res = "none",
                        !.calls = IF @ < 2 THEN @ + 1 ELSE @]
    /\ UNCHANGED <<experiments, scheduling_vars, labs, device_labs, container_labs,
                   db_experiments, db_tasks, loading_lock, ul, ld, xp, rl, rd, tp,
                   experiment_loads, device_plugins, task_plugins, reloaded_devices>>

\* The answer to the query: with no RUNNING experiment the call returns.
fail_running_experiments_query ==
    /\ fr.pc = "query"
    /\ LET running_experiments == get_experiments_running
       IN  fr' = IF running_experiments = {}
                 THEN [fr EXCEPT !.pc = "done", !.res = "none_running",
                                 !.running_experiments = {}, !.todo = {}]
                 ELSE [fr EXCEPT !.pc = "failing",
                                 !.running_experiments = running_experiments,
                                 !.todo = running_experiments]
    /\ UNCHANGED <<experiments, scheduling_vars, labs, device_labs, container_labs,
                   db_experiments, db_tasks, loading_lock, ul, ld, xp, rl, rd, tp,
                   experiment_loads, device_plugins, task_plugins, reloaded_devices>>

\* One turn of the loop: await fail_experiment of the next experiment of the
\* answer; after the last one the warning is logged and the call returns.
fail_running_experiments_fail(e) ==
    /\ fr.pc = "failing"
    /\ e \in fr.todo
    /\ db_experiments' = fail_experiment(db_experiments, e)
    /\ fr' = IF fr.todo = {e}
             THEN [fr EXCEPT !.pc = "done", !.res = "failed_all", !.todo = {}]
             ELSE [fr EXCEPT !.todo = @ \ {e}]
    /\ ul' = StillUsed(db_experiments', db_tasks)
    /\ UNCHANGED <<experiments, scheduling_vars, labs, device_labs, container_labs,
                   db_tasks, loading_lock, ld, xp, rl, rd, tp,
                   experiment_loads, device_plugins, task_plugins, reloaded_devices>>

\* The caller has the outcome of the call.
fail_running_experiments_return ==
    /\ fr.pc = "done"
    /\ fr' = [fr EXCEPT !.pc = "idle"]
    /\ UNCHANGED <<experiments, scheduling_vars, labs, device_labs, container_labs,
                   db_experiments, db_tasks, loading_lock, ul, ld, xp, rl, rd, tp,
                   experiment_loads, device_plugins, task_plugins, reloaded_devices>>

(***************************************************************************)
(* The executor that submit_experiment starts                              *)
(***************************************************************************)
\* While submit_experiment awaits start_experiment, the executor persists
\* the experiment with its type and the status RUNNING.
start_experiment_persists(c) ==
    /\ sub[c].pc = "starting"
    /\ db_experiments[sub[c].id] # [type |-> sub[c].type, status |-> "RUNNING"]
    /\ db_experiments' = [db_experiments EXCEPT
                             ![sub[c].id] = [type |-> sub[c].type, status |-> "RUNNING"]]
    /\ ul' = StillUsed(db_experiments', db_tasks)
    /\ UNCHANGED <<experiments, scheduling_vars, labs, device_labs, container_labs,
                   db_tasks, loading_lock, ld, reconfiguration_vars>>

(***************************************************************************)
(* Specifications                                                          *)
(***************************************************************************)
\* No other loading call is under way and nothing was loaded again or
\* hot-swapped.
ReconfigurationQuiet ==
    /\ xp = NoLoading
    /\ rl = NoReloadLabs
    /\ rd = NoReloadDevices
    /\ tp = NoReloadTasks
    /\ fr = NoFailRunning
    /\ experiment_loads = [type \in ExperimentTypes |-> 0]
    /\ device_plugins = {}
    /\ task_plugins = {}
    /\ reloaded_devices = {}

\* Every lab is loaded, nothing is persisted, no loading call is under way.
LoadingQuiet ==
    /\ labs = Labs
    /\ device_labs = Labs
    /\ container_labs = Labs
    /\ db_experiments = [e \in ExperimentIds |-> [type |-> "T1", status |-> "ABSENT"]]
    /\ db_tasks = [t \in Tasks |-> "ABSENT"]
    /\ loading_lock = "none"
    /\ ul = NoLoading
    /\ ld = NoLoading
    /\ ReconfigurationQuiet

SchedInit ==
    /\ experiments = {"T1"}
    /\ ExperimentServiceInit
    /\ LoadingQuiet

\* The registry holds A and B, admitted earlier by submit_experiment.
CancelInit ==
    /\ experiments = {"T1"}
    /\ submitted_experiments = <<[id |-> "A", prio |-> 1], [id |-> "B", prio |-> 1]>>
    /\ lock_owner = "none"
    /\ lock_waiters = <<>>
    /\ experiment_cancellation_queue = <<>>
    /\ putters = <<>>
    /\ sub = [c \in SubmitCallers |-> NoCall]
    /\ can = [c \in CancelCallers |-> NoCall]
    /\ cancel_calls = 0
    /\ tick = NoTick
    /\ drain = NoDrain
    /\ LoadingQuiet

\* The steps of submit_experiment calls that never wait for the lock.
SubmitSteps(callers, ids, types, prios) ==
    \/ \E c \in callers, id \in ids, type \in types, prio \in prios :
          submit_experiment(c, id, type, prio)
    \/ \E c \in callers : start_experiment_ok(c)
    \/ \E c \in callers : start_experiment_error(c)
    \/ \E c \in callers : submit_experiment_return(c)

SubmitNext(callers, ids, types, prios) ==
    \/ SubmitSteps(callers, ids, types, prios)
    \/ \E c \in callers : submit_experiment_acquire(c)

TickNext ==
    \/ process_experiments
    \/ \E outcome \in {"false", "true", "error"} : progress_experiment(outcome)
    \/ process_experiments_cleanup

CancelNext(callers, ids, counted) ==
    \/ \E c \in callers, id \in ids : cancel_experiment(c, id, counted)
    \/ \E c \in callers : cancel_experiment_resume(c)
    \/ \E c \in callers : cancel_experiment_return(c)

\* The steps of a drain after its start.
DrainSteps ==
    \/ \E i \in 1..QueueMaxSize : cancel_lookup(i)
    \/ \E i \in 1..QueueMaxSize, outcome \in {"ok", "ExecutionError"} : cancel_finish(i, outcome)
    \/ \E i \in 1..QueueMaxSize : gather_raise(i)
    \/ gather_return

DrainNext ==
    \/ process_experiment_cancellations
    \/ DrainSteps

\* Concurrent submissions of two ids by two callers, and the tick.
SpecSubmit ==
    SchedInit /\ [][SubmitNext(SubmitCallers, {"A", "B"}, ExperimentTypes, Priorities)
                    \/ TickNext]_vars

\* Submissions of three ids by one caller, and the tick.
SpecTick ==
    SchedInit /\ [][SubmitSteps({"s1"}, ExperimentIds, ExperimentTypes, Priorities)
                    \/ TickNext]_vars

\* Cancellation requests by two callers, the tick and the drain.
SpecCancel ==
    CancelInit /\ [][CancelNext({"c1", "c2"}, {"A", "B"}, FALSE)
                      \/ TickNext \/ DrainNext]_vars

\* Cancellation requests by three callers, the tick and the drain.
CancelFairNext ==
    \/ CancelNext(CancelCallers, {"A"}, FALSE)
    \/ TickNext
    \/ DrainNext

\* The event loop runs every coroutine that can run: a tick, a drain and a
\* woken putter each go on to their next step; the driver loop starts a
\* drain again and again.  Callers are free to call or not.
CancelFairness ==
    /\ SF_vars(process_experiment_cancellations)
    /\ WF_vars(DrainSteps)
    /\ WF_vars(TickNext)
    /\ \A c \in CancelCallers : WF_vars(cancel_experiment_resume(c))

SpecCancelFair == CancelInit /\ [][CancelFairNext]_vars /\ CancelFairness

\* The same with at most MaxCancelCalls requests in a behaviour.
CancelBoundedNext ==
    \/ CancelNext(CancelCallers, {"A"}, TRUE)
    \/ TickNext
    \/ DrainNext

SpecCancelBounded == CancelInit /\ [][CancelBoundedNext]_vars /\ CancelFairness

\* Both experiment types and every lab are loaded; experiment A is of type
\* T1 and experiment B of type T2, and neither has started.
LoadInit ==
    /\ experiments = ExperimentTypes
    /\ ExperimentServiceInit
    /\ labs = Labs
    /\ device_labs = Labs
    /\ container_labs = Labs
    /\ db_experiments = [e \in ExperimentIds |->
                            [type |-> IF e = "B" THEN "T2" ELSE "T1",
                             status |-> "ABSENT"]]
    /\ db_tasks = [t \in Tasks |-> "ABSENT"]
    /\ loading_lock = "none"
    /\ ul = NoLoading
    /\ ld = NoLoading
    /\ ReconfigurationQuiet

ExecutorNext ==
    \/ \E e \in {"A", "B"} : experiment_status(e, "ABSENT", "RUNNING")
    \/ \E e \in {"A", "B"} : experiment_status(e, "RUNNING", "COMPLETED")
    \/ \E t \in Tasks : task_status(t, "ABSENT", "CREATED")
    \/ \E t \in Tasks : task_status(t, "CREATED", "RUNNING")
    \/ \E t \in Tasks : task_status(t, "RUNNING", "COMPLETED")

LoadLabsNext ==
    \/ \E lab_set \in (SUBSET Labs) \ {{}} : load_labs(lab_set)
    \/ load_labs_acquire
    \/ load_labs_update_devices
    \/ load_labs_update_containers

UnloadLabsNext ==
    \/ \E lab_set \in (SUBSET Labs) \ {{}} : unload_labs(lab_set)
    \/ unload_labs_check_experiments
    \/ unload_labs_check_tasks_running
    \/ unload_labs_check_tasks_created
    \/ unload_labs_acquire
    \/ unload_labs_update_devices
    \/ unload_labs_update_containers
    \/ unload_labs_return

\* load_labs and unload_labs calls while experiments and tasks run.
SpecLoad ==
    LoadInit /\ [][ExecutorNext \/ LoadLabsNext \/ UnloadLabsNext]_vars

\* The calls of load_experiments, unload_experiments and reload_experiments
\* on the given sets of types, and their steps.
ExperimentsCalls(type_sets) ==
    \/ \E types \in type_sets : load_experiments(types)
    \/ \E types \in type_sets : unload_experiments(types)
    \/ unload_experiments_check
    \/ \E types \in type_sets : reload_experiments(types)
    \/ reload_experiments_acquire
    \/ reload_experiments_check
    \/ experiments_return

\* The calls of unload_labs on the given sets of labs, and their steps.
UnloadLabsCalls(lab_sets) ==
    \/ \E lab_set \in lab_sets : unload_labs(lab_set)
    \/ unload_labs_check_experiments
    \/ unload_labs_check_tasks_running
    \/ unload_labs_check_tasks_created
    \/ unload_labs_acquire
    \/ unload_labs_update_devices
    \/ unload_labs_update_containers
    \/ unload_labs_return

\* Submissions of experiment A while lab L1 is unloaded and experiment types
\* are unloaded, loaded and reloaded.
SpecAdmit ==
    LoadInit /\ [][\/ SubmitSteps({"s1"}, {"A"}, ExperimentTypes, {1})
                   \/ start_experiment_persists("s1")
                   \/ UnloadLabsCalls({{"L1"}})
                   \/ ExperimentsCalls({{"T1"}, {"T1", "T2"}})]_vars

\* The calls of reload_labs on the given sets of labs, and their steps.
ReloadLabsCalls(lab_sets) ==
    \/ \E lab_types \in lab_sets, failed \in {"none", "D1", "D2"},
          swapped \in SUBSET {"D1", "D2"} : reload_labs(lab_types, failed, swapped)
    \/ reload_labs_acquire
    \/ reload_labs_check_experiments
    \/ reload_labs_check_tasks_running
    \/ reload_labs_check_tasks_created
    \/ reload_labs_unload_devices
    \/ reload_labs_unload_containers
    \/ reload_labs_load_devices
    \/ reload_labs_load_containers
    \/ reload_labs_return

\* Experiment A and the standalone task K1 start and end.
ExecutorSteps ==
    \/ experiment_status("A", "ABSENT", "RUNNING")
    \/ experiment_status("A", "RUNNING", "COMPLETED")
    \/ task_status("K1", "ABSENT", "CREATED")
    \/ task_status("K1", "CREATED", "RUNNING")
    \/ task_status("K1", "RUNNING", "COMPLETED")

\* reload_labs calls and calls of the operations on experiment types while
\* experiments and tasks run.
SpecReload ==
    LoadInit /\ [][\/ ExecutorSteps
                   \/ ReloadLabsCalls({{"L1"}, {"L1", "L2"}})
                   \/ ExperimentsCalls({{"T1"}, {"T1", "T2"}})]_vars

\* The calls of reload_devices on lab L1, and their steps.
ReloadDevicesCalls ==
    \/ \E device_ids \in {{"d1"}, {"d2"}, {"d1", "d2"}} : reload_devices("L1", device_ids)
    \/ reload_devices_acquire
    \/ reload_devices_check_experiments
    \/ reload_devices_check_tasks_running
    \/ reload_devices_check_tasks_created
    \/ reload_devices_delegate
    \/ reload_devices_return

\* reload_devices calls on L1 while L1 is unloaded and loaded and while
\* experiments and tasks run.
SpecDevices ==
    LoadInit /\ [][\/ ExecutorSteps
                   \/ ReloadDevicesCalls
                   \/ UnloadLabsCalls({{"L1"}})
                   \/ LoadLabsNext]_vars

\* The calls of reload_task_plugins, and their steps.
ReloadTaskPluginsCalls ==
    \/ \E task_types \in (SUBSET TaskTypes) \ {{}} : reload_task_plugins(task_types)
    \/ reload_task_plugins_acquire
    \/ reload_task_plugins_check_running
    \/ \E failed \in TaskTypes \cup {"none"}, swapped \in SUBSET TaskTypes :
          reload_task_plugins_check_created(failed, swapped)
    \/ reload_task_plugins_return

\* reload_task_plugins and load_labs calls while tasks run.
SpecTaskPlugins ==
    LoadInit /\ [][\/ \E t \in Tasks : task_status(t, "ABSENT", "CREATED")
                   \/ \E t \in Tasks : task_status(t, "CREATED", "RUNNING")
                   \/ \E t \in Tasks : task_status(t, "RUNNING", "COMPLETED")
                   \/ ReloadTaskPluginsCalls
                   \/ LoadLabsNext]_vars

\* The statuses of a persisted experiment.
ExperimentStatuses == {"CREATED", "RUNNING", "COMPLETED", "FAILED", "CANCELLED"}

\* After a restart: the persisted experiments have any statuses, and no
\* Executor is there to change them.
RecoverInit ==
    /\ experiments = ExperimentTypes
    /\ ExperimentServiceInit
    /\ labs = Labs
    /\ device_labs = Labs
    /\ container_labs = Labs
    /\ db_experiments \in [ExperimentIds -> [type : {"T1"}, status : ExperimentStatuses]]
    /\ db_tasks = [t \in Tasks |-> "ABSENT"]
    /\ loading_lock = "none"
    /\ ul = NoLoading
    /\ ld = NoLoading
    /\ ReconfigurationQuiet

\* Calls of fail_running_experiments, one after the other.
SpecRecover ==
    RecoverInit /\ [][\/ fail_running_experiments
                      \/ fail_running_experiments_query
                      \/ \E e \in ExperimentIds : fail_running_experiments_fail(e)
                      \/ fail_running_experiments_return]_vars

C2_UnknownTypeRejected ==
    /\ [](\A c \in SubmitCallers :
            sub[c].pc \in {"waiting", "starting"} => sub[c].type \in experiments)
    /\ [][\A c \in SubmitCallers :
            (/\ sub[c].pc = "idle"
             /\ sub'[c].pc # "idle"
             /\ sub'[c].type \notin experiments)
            => /\ sub'[c].pc = "done"
               /\ sub'[c].res = "UnknownType"
               /\ submitted_experiments' = submitted_experiments
               /\ lock_owner' = lock_owner
               /\ lock_waiters' = lock_waiters]_vars

\* A call with an unknown type has failed while another experiment is
\* registered and the id of the failed call is not.
C2_Witness ==
    \E c \in SubmitCallers :
        /\ sub[c].pc = "done"
        /\ sub[c].res = "UnknownType"
        /\ submitted_experiments # <<>>
        /\ sub[c].id \notin Ids(submitted_experiments)

\* C3: while an executor is being started its id is not registered; when
\* the start raises ExecutionError the call ends with that error, the
\* registry is unchanged and does not hold the id, and the lock is free.
C3_FailedStartLeavesNothing ==
    /\ [](\A c \in SubmitCallers :
            sub[c].pc = "starting" => sub[c].id \notin Ids(submitted_experiments))
    /\ [][\A c \in SubmitCallers :
            (sub[c].pc = "starting" /\ sub'[c].pc # "starting")
            => \/ /\ sub'[c].res = "submitted"
                  /\ sub[c].id \in Ids(submitted_experiments')
               \/ /\ sub'[c].pc = "done"
                  /\ sub'[c].res = "ExecutionError"
                  /\ submitted_experiments' = submitted_experiments
                  /\ sub[c].id \notin Ids(submitted_experiments')
                  /\ lock_owner' = "none"]_vars

\* After a failed start of an id, another call is starting an executor
\* for the same id afresh.
C3_Witness ==
    \E c, d \in SubmitCallers :
        /\ sub[c].pc = "done" /\ sub[c].res = "ExecutionError"
        /\ sub[d].pc = "starting" /\ sub[d].id = sub[c].id

(***************************************************************************)
(* Properties of cancel_experiment                                         *)
(***************************************************************************)
\* C7: a drain that ends has removed from the registry the ids it took
\* from the queue when it started (at the least those whose cancel had
\* returned) and no other id, and from its start to its end the queue only
\* grows by the requests that arrive meanwhile.
C7_DrainRemovesExactlyDrained ==
    [][/\ (drain.pc = "gathering" /\ drain'.pc = "idle")
          => /\ \A i \in 1..Len(drain.ids) :
                    drain.st[i] = "ok" => drain.ids[i] \notin Ids(submitted_experiments')
             /\ Ids(submitted_experiments) \ Ids(submitted_experiments')
                    \subseteq Range(drain.ids)
       /\ drain.pc = "gathering"
          => /\ Len(experiment_cancellation_queue') >= Len(experiment_cancellation_queue)
             /\ SubSeq(experiment_cancellation_queue', 1, Len(experiment_cancellation_queue))
                    = experiment_cancellation_queue]_vars

\* The part of C7 about late requests alone: after its start a drain takes
\* nothing more from the queue.
C7_LateRequestsStayQueued ==
    [][drain.pc = "gathering"
       => /\ Len(experiment_cancellation_queue') >= Len(experiment_cancellation_queue)
          /\ SubSeq(experiment_cancellation_queue', 1, Len(experiment_cancellation_queue))
                 = experiment_cancellation_queue
          /\ drain'.pc = "gathering" => drain'.ids = drain.ids]_vars

\* A request for a registered id that finds the queue full suspends its
\* caller and leaves the queue as it is; a suspended or woken caller leaves
\* that condition only by appending its id to the queue.
SuspendsAndNeverDrops ==
    [][\A c \in CancelCallers :
          /\ (/\ can[c].pc = "idle"
              /\ can'[c].pc # "idle"
              /\ can'[c].id \in Ids(submitted_experiments)
              /\ Len(experiment_cancellation_queue) >= QueueMaxSize)
             => /\ can'[c].pc = "suspended"
                /\ c \in Range(putters')
                /\ experiment_cancellation_queue' = experiment_cancellation_queue
          /\ (/\ can[c].pc \in {"suspended", "woken"}
              /\ can'[c].pc \notin {"suspended", "woken"})
             => /\ can'[c].pc = "done"
                /\ can'[c].res = "enqueued_late"
                /\ experiment_cancellation_queue' =
                       Append(experiment_cancellation_queue, can[c].id)]_vars

\* C8 as stated: a request on a full queue suspends its caller, is never
\* dropped, and every suspended caller is eventually done with its id in
\* the queue.
C8_Backpressure ==
    /\ SuspendsAndNeverDrops
    /\ \A c \in CancelCallers :
           (can[c].pc = "suspended") ~> (can[c].pc = "done" /\ can[c].res = "enqueued_late")

\* C8 amended: a request on a full queue suspends its caller and is never
\* dropped; every suspended caller is eventually woken by a drain, and a
\* woken caller, when it runs, enqueues its id on a queue with room or
\* suspends again on a queue that was filled in between.
C8_BackpressureWakes ==
    /\ SuspendsAndNeverDrops
    /\ [][\A c \in CancelCallers :
            (can[c].pc = "woken" /\ can'[c].pc # "woken")
            => IF Len(experiment_cancellation_queue) >= QueueMaxSize
               THEN can'[c].pc = "suspended"
               ELSE can'[c].pc = "done"]_vars
    /\ \A c \in CancelCallers : (can[c].pc = "suspended") ~> (can[c].pc = "woken")

\* A caller that was suspended on a full queue has its id in the queue
\* after a drain made room, while another caller is suspended.
C8_Witness ==
    \E c, d \in CancelCallers :
        /\ can[c].pc = "done" /\ can[c].res = "enqueued_late"
        /\ can[c].id \in Range(experiment_cancellation_queue)
        /\ can[d].pc = "suspended"

\* C9: a request for an id that is not registered changes neither queue
\* nor registry nor putters and is done at once, full queue or not; a
\* request for a registered id leaves the registry alone and appends
\* exactly its id to the queue, at once or, after a full queue, when the
\* caller runs again.
C9_CancelRequestFrame ==
    [][\A c \in CancelCallers :
          /\ (can[c].pc = "idle" /\ can'[c].pc # "idle")
             => IF can'[c].id \notin Ids(submitted_experiments)
                THEN /\ can'[c].pc = "done" /\ can'[c].res = "noop"
                     /\ experiment_cancellation_queue' = experiment_cancellation_queue
                     /\ putters' = putters
                     /\ submitted_experiments' = submitted_experiments
                ELSE /\ submitted_experiments' = submitted_experiments
                     /\ \/ /\ can'[c].pc = "done" /\ can'[c].res = "enqueued"
                           /\ experiment_cancellation_queue' =
                                  Append(experiment_cancellation_queue, can'[c].id)
                        \/ /\ can'[c].pc = "suspended"
                           /\ Len(experiment_cancellation_queue) >= QueueMaxSize
                           /\ experiment_cancellation_queue' = experiment_cancellation_queue
          /\ (can[c].pc = "woken" /\ can'[c].pc # "woken")
             => /\ submitted_experiments' = submitted_experiments
                /\ \/ /\ can'[c].pc = "done"
                      /\ experiment_cancellation_queue' =
                             Append(experiment_cancellation_queue, can[c].id)
                   \/ /\ can'[c].pc = "suspended"
                      /\ experiment_cancellation_queue' = experiment_cancellation_queue]_vars

\* A request for an unregistered id has returned as a no-op on a full
\* queue, beside a request for a registered id that is in the queue.
C9_Witness ==
    \E c, d \in CancelCallers :
        /\ can[c].pc = "done" /\ can[c].res = "noop"
        /\ can[c].id \notin Ids(submitted_experiments)
        /\ Len(experiment_cancellation_queue) = QueueMaxSize
        /\ can[d].pc = "done" /\ can[d].res = "enqueued"
        /\ can[d].id \in Ids(submitted_experiments)

(***************************************************************************)
(* Properties of process_experiments                                       *)
(***************************************************************************)
PriorityIn(d, id) == (CHOOSE e \in Range(d) : e.id = id).prio

PositionIn(d, id) == CHOOSE i \in 1..Len(d) : d[i].id = id

\* id1 is to be progressed before id2: higher priority, or equal priority
\* and inserted earlier
Before(d, id1, id2) ==
    \/ PriorityIn(d, id1) > PriorityIn(d, id2)
    \/ /\ PriorityIn(d, id1) = PriorityIn(d, id2)
       /\ PositionIn(d, id1) < PositionIn(d, id2)

\* C4: at any point of a tick, the experiments progressed so far were
\* progressed in order of priority descending, ties in insertion order:
\* the experiments progressed before the j-th one are exactly those of
\* the registry at the start of the tick that come before it.
C4_PriorityOrder ==
    tick.pc = "running" =>
        \A j \in 1..Len(tick.progressed) :
            {tick.progressed[i] : i \in 1..(j - 1)} =
                {id \in Ids(tick.start) : Before(tick.start, id, tick.progressed[j])}

\* Priorities [5, 1, 5]: both priority-5 entries were progressed, in
\* insertion order, before the priority-1 entry.
C4_Witness ==
    /\ tick.pc = "running"
    /\ Len(tick.start) = 3
    /\ tick.start[1].prio = 5 /\ tick.start[2].prio = 1 /\ tick.start[3].prio = 5
    /\ tick.progressed = <<tick.start[1].id, tick.start[3].id, tick.start[2].id>>

\* C5: in a tick no experiment is progressed twice, and when the pass is
\* over every experiment of the registry at the start of the tick has been
\* progressed, whatever number of them raised ExecutionError.
C5_FailureIsolation ==
    tick.pc = "running" =>
        /\ \A i, j \in 1..Len(tick.progressed) :
               i # j => tick.progressed[i] # tick.progressed[j]
        /\ Range(tick.progressed) \subseteq Ids(tick.start)
        /\ Range(tick.failed) \subseteq Range(tick.progressed)
        /\ tick.idx > Len(tick.snap) => Range(tick.progressed) = Ids(tick.start)

\* The first of three experiments raised and the other two were progressed.
C5_Witness ==
    /\ tick.pc = "running"
    /\ tick.idx > Len(tick.snap)
    /\ Len(tick.progressed) = 3
    /\ tick.progressed[1] \in Range(tick.failed)

Removed(t) == Range(t.completed) \cup Range(t.failed)

\* C6 as stated: after a tick the registry is the registry at the start of
\* the tick without the completed and failed ids.
C6_RegistryIsStartMinusRemoved ==
    [][(tick.pc = "running" /\ tick'.pc = "idle")
       => submitted_experiments' =
              SelectSeq(tick.start, LAMBDA e : e.id \notin Removed(tick))]_vars

\* C6 amended: during the pass the registry is the registry at the start
\* of the tick followed by the entries admitted since (nothing is removed
\* mid-pass); the clean-up removes from it exactly the completed and failed ids.
C6_RegistryIsCurrentMinusRemoved ==
    /\ [](tick.pc = "running" =>
            /\ Len(tick.start) <= Len(submitted_experiments)
            /\ SubSeq(submitted_experiments, 1, Len(tick.start)) = tick.start)
    /\ [][(tick.pc = "running" /\ tick'.pc = "idle")
          => /\ tick'.res = "done"
             /\ submitted_experiments' =
                    SelectSeq(submitted_experiments, LAMBDA e : e.id \notin Removed(tick))]_vars

\* The scenario's second tick: B alone was registered, raised, and the
\* registry is empty.
C6_Witness ==
    /\ tick.pc = "idle"
    /\ tick.res = "done"
    /\ tick.failed = <<"B">>
    /\ tick.completed = <<>>
    /\ submitted_experiments = <<>>

(***************************************************************************)
(* Properties of unload_labs                                               *)
(***************************************************************************)
UnloadChecking == {"experiments", "tasks_running", "tasks_created"}

\* unload_labs has told a failure by ResourceInUse.
UnloadRejected == ul.pc = "done" /\ ul.res = "ResourceInUse"

\* unload_labs is past its checks: it waits for the lock, mutates, or is done.
UnloadAdmitted ==
    \/ ul.pc \in {"wait_lock", "update_devices", "update_containers"}
    \/ ul.pc = "done" /\ ul.res = "unloaded"

\* C10: unload_labs on a set of labs fails with ResourceInUse whenever a lab
\* of the set is in the lab set of a RUNNING experiment or hosts a device of
\* a standalone task that is RUNNING or CREATED, and then the loaded labs and
\* the devices and containers of the managers are unchanged.  "Whenever" is
\* taken in its weakest sense: the lab is in use at every moment of the call.
C10_UnloadLabsRejectsLabInUse ==
    /\ [](UnloadAdmitted => ul.used = {})
    /\ [][UnloadRejected' /\ ~UnloadRejected
            => UNCHANGED <<labs, device_labs, container_labs, loading_lock>>]_vars

\* C10, what holds of it: a lab that the query of the RUNNING experiments or
\* one of the two task queries finds in use makes the call fail, a call that
\* fails changes nothing, and no call changes anything during its checks.
C10_UsageSeenByQueryRejects ==
    /\ [][ul.pc = "experiments" /\ ul'.pc # ul.pc
            /\ (\E e \in ExperimentIds :
                    /\ db_experiments[e].status = "RUNNING"
                    /\ ul.cur \in experiment_labs[db_experiments[e].type])
            => UnloadRejected']_vars
    /\ [][ul.pc = "tasks_created" /\ ul'.pc # ul.pc
            /\ (\E t \in Tasks :
                    /\ t \in ul.active \/ db_tasks[t] = "CREATED"
                    /\ task_experiment_id[t] = "on_demand"
                    /\ ul.cur \in task_device_labs[t])
            => UnloadRejected']_vars
    /\ [][ul.pc \in UnloadChecking /\ ul'.pc # ul.pc
            /\ ul'.pc \in UnloadChecking \cup {"done"}
            => UNCHANGED <<labs, device_labs, container_labs, loading_lock>>]_vars

\* unload_labs of a lab in use by a RUNNING experiment has failed.
C10_Witness ==
    /\ UnloadRejected
    /\ ul.used # {}
    /\ \E e \in ExperimentIds :
          /\ db_experiments[e].status = "RUNNING"
          /\ ul.used \cap experiment_labs[db_experiments[e].type] # {}

\* C11: in unload_labs the usage check of every lab and the unload that
\* follows are inside one acquisition of _loading_lock: from the start of the
\* check to the end of the mutation the lock is held by unload_labs, and
\* load_labs does not change the loaded labs between the check and the
\* mutation.
C11_UnloadLabsChecksUnderLock ==
    /\ [](ul.pc \in UnloadChecking \cup {"wait_lock", "update_devices", "update_containers"}
            => loading_lock = "unload_labs")
    /\ [][ul.pc \in UnloadChecking \cup {"wait_lock"} /\ ul' = ul => labs' = labs]_vars

(***************************************************************************)
(* Properties of the loading operations under concurrency                  *)
(***************************************************************************)
\* A RUNNING experiment has one of the labs in the lab set of its type.
RunningOnLabs(lab_set) ==
    \E e \in ExperimentIds :
        /\ db_experiments[e].status = "RUNNING"
        /\ experiment_labs[db_experiments[e].type] \cap lab_set # {}

\* A RUNNING experiment is of one of the types.
RunningOfTypes(types) ==
    \E e \in ExperimentIds :
        /\ db_experiments[e].status = "RUNNING"
        /\ db_experiments[e].type \in types

\* C12: when unload_labs, unload_experiments or reload_experiments, run
\* while experiments are submitted, applies its mutation, no RUNNING
\* experiment depends on the labs or types it unloads or reloads.
C12_NoRunningDependentAtMutation ==
    /\ [][ul.pc \in UnloadChecking \cup {"wait_lock"} /\ ul'.pc = "update_devices"
            => ~RunningOnLabs(ul.labs)]_vars
    /\ [][xp.pc \in {"unload_check", "reload_check"} /\ xp'.pc = "done"
            /\ xp'.res \in {"unloaded", "reloaded"}
            => ~RunningOfTypes(xp.labs)]_vars

\* The Resource Store and what the managers hold of it.
resource_store == <<experiments, experiment_loads, labs, device_labs, container_labs>>

\* reload_labs is between the start of its usage check and the end of its
\* mutation.
ReloadLabsBusy ==
    rl.pc \in {"experiments", "tasks_running", "tasks_created", "unload_devices",
               "unload_containers", "load_devices", "load_containers"}

\* unload_experiments or reload_experiments is between the start of its
\* usage check and its mutation.
ExperimentsBusy == xp.pc \in {"unload_check", "reload_check"}

\* C13: the load, unload and reload operations exclude one another: while
\* one of them is between the start of its check and the end of its
\* mutation, no other one, load_experiments and unload_experiments
\* included, changes the Resource Store.
C13_OperationsMutuallyExclusive ==
    /\ [][ReloadLabsBusy /\ rl' = rl => UNCHANGED resource_store]_vars
    /\ [][ExperimentsBusy /\ xp' = xp => UNCHANGED resource_store]_vars

(***************************************************************************)
(* Properties of reload_labs                                               *)
(***************************************************************************)
\* C14: when the hot-swap of a device plugin fails, reload_labs fails with
\* that error as the first thing it tells: the call has neither taken the
\* lock nor unloaded or loaded a lab, nor pushed a device or container
\* update, nor reloaded an experiment type.
C14_PluginFailureBeforeAnyMutation ==
    [][rl'.res = "PluginReloadError" /\ rl.res # "PluginReloadError"
         => /\ rl.pc = "idle"
            /\ rl'.pc = "done"
            /\ UNCHANGED resource_store
            /\ UNCHANGED loading_lock]_vars

\* reload_labs of both labs has failed in its second hot-swap.
C14_Witness ==
    /\ rl.pc = "done"
    /\ rl.res = "PluginReloadError"
    /\ rl.labs = {"L1", "L2"}
    /\ device_plugins # {}
    /\ labs = Labs /\ device_labs = Labs /\ container_labs = Labs

\* C15: reload_labs computes the dependent experiment types from the
\* configuration as it is when the call has the lock, before it unloads a
\* lab: they are the loaded types with one of the labs in their lab set.
\* When the call succeeds, the labs are loaded again and, after that, each
\* of these types has been loaded from its configuration by the call.
C15_DependentExperimentsReloaded ==
    /\ [][rl.pc \in {"idle", "wait_lock"} /\ rl'.pc = "experiments"
            => /\ rl'.experiments_to_reload =
                      {type \in experiments : experiment_labs[type] \cap rl'.labs # {}}
               /\ labs' = labs]_vars
    /\ [](rl.pc \in {"idle", "wait_lock", "experiments", "tasks_running", "tasks_created",
                     "unload_devices", "unload_containers", "load_devices"}
            => rl.res # "reloaded")
    /\ [](rl.pc \in {"load_devices", "load_containers"} => rl.labs \subseteq labs)
    /\ [][rl'.res = "reloaded" /\ rl.res # "reloaded"
            => /\ rl.pc = "load_containers"
               /\ rl.labs \subseteq labs'
               /\ \A type \in rl.experiments_to_reload :
                     /\ type \in experiments'
                     /\ experiment_loads'[type] # experiment_loads[type]]_vars

\* reload_labs of L1 has succeeded and has reloaded T1, whose only lab is L1.
C15_Witness ==
    /\ rl.pc = "done"
    /\ rl.res = "reloaded"
    /\ rl.labs = {"L1"}
    /\ rl.experiments_to_reload = {"T1"}
    /\ experiment_labs["T1"] = {"L1"}
    /\ experiment_loads["T1"] = 1

(***************************************************************************)
(* Properties of reload_devices                                            *)
(***************************************************************************)
\* The standalone task is on one of the devices of the reload_devices call.
OnDevicesOfCall(t) ==
    /\ task_experiment_id[t] \in {"", "on_demand"}
    /\ \E d \in rd.devices : <<rd.cur, d>> \in task_devices[t]

\* A RUNNING experiment uses one of the devices of the reload_devices call.
RunningOnDevicesOfCall ==
    \E e \in ExperimentIds :
        /\ db_experiments[e].status = "RUNNING"
        /\ db_experiments[e].type \in experiments
        /\ \E d \in rd.devices :
              <<rd.cur, d>> \in experiment_task_devices[db_experiments[e].type]

\* reload_devices holds the lock, has found the lab loaded, and delegates.
ReloadDevicesDelegates ==
    /\ rd.pc = "reload"
    /\ loading_lock = "reload_devices"
    /\ rd.cur \in labs

\* The parts of C16 on the lock, on the lab and on the RUNNING experiments,
\* and on the failures.
ReloadDevicesGuard ==
    /\ [](rd.pc = "reload" => ReloadDevicesDelegates)
    /\ [][rd.pc \in {"idle", "wait_lock"} /\ rd'.pc # rd.pc /\ rd'.pc # "wait_lock"
            => IF rd'.cur \in labs
               THEN rd'.pc = "experiments" /\ loading_lock' = "reload_devices"
               ELSE rd'.pc = "done" /\ rd'.res = "ConfigurationError"]_vars
    /\ [][rd.pc = "experiments" /\ rd'.pc # rd.pc /\ RunningOnDevicesOfCall
            => rd'.pc = "done" /\ rd'.res = "ResourceInUse"]_vars
    /\ [][rd'.pc = "done" /\ rd.pc # "done"
            /\ rd'.res \in {"ConfigurationError", "ResourceInUse"}
            => rd.pc # "reload" /\ reloaded_devices' = reloaded_devices]_vars
    /\ [][reloaded_devices' # reloaded_devices => rd.pc = "reload"]_vars

\* C16: reload_devices delegates to the device manager only if, in one
\* acquisition of the lock, the lab is loaded and the device usage predicate
\* is clear; an unloaded lab makes it fail with ConfigurationError; a RUNNING
\* experiment or an active standalone task on one of the devices makes it
\* fail with ResourceInUse, here a task that is CREATED or RUNNING at both of
\* the task queries; and a call that fails reloads no device.
C16_ReloadDevicesGuarded ==
    /\ ReloadDevicesGuard
    /\ [][rd.pc = "tasks_created" /\ rd'.pc # rd.pc
            /\ (\E t \in Tasks :
                    /\ OnDevicesOfCall(t)
                    /\ t \in rd.active \cup rd.created
                    /\ db_tasks[t] \in {"RUNNING", "CREATED"})
            => rd'.pc = "done" /\ rd'.res = "ResourceInUse"]_vars

\* C16, what holds of it: the same, for a task that the RUNNING query finds
\* RUNNING or the CREATED query finds CREATED.
C16_UsageSeenByQueryRejects ==
    /\ ReloadDevicesGuard
    /\ [][rd.pc = "tasks_created" /\ rd'.pc # rd.pc
            /\ (\E t \in Tasks :
                    /\ OnDevicesOfCall(t)
                    /\ t \in rd.active \/ db_tasks[t] = "CREATED")
            => rd'.pc = "done" /\ rd'.res = "ResourceInUse"]_vars

(***************************************************************************)
(* Properties of unload_experiments and reload_experiments                 *)
(***************************************************************************)
\* C17: unload_experiments and reload_experiments fail with ResourceInUse
\* when the query of a type of the set finds a RUNNING experiment of it, a
\* call that fails has unloaded or reloaded no type, and reload_experiments
\* unloads and loads in one step under the lock, so that no state has the
\* types unloaded by it.
C17_ExperimentsInUseRejected ==
    /\ [][ExperimentsBusy /\ xp' # xp /\ RunningOfTypes({xp.cur})
            => xp'.pc = "done" /\ xp'.res = "ResourceInUse"]_vars
    /\ [][ExperimentsBusy /\ xp' # xp /\ xp'.res \notin {"unloaded", "reloaded"}
            => UNCHANGED <<experiments, experiment_loads>>]_vars
    /\ [][xp.pc = "reload_check" /\ xp' # xp
            => /\ loading_lock = "reload_experiments"
               /\ experiments \subseteq experiments'
               /\ xp'.res = "reloaded" =>
                     /\ xp.labs \subseteq experiments'
                     /\ \A type \in xp.labs :
                           experiment_loads'[type] # experiment_loads[type]]_vars

\* A call on T1 and T2 has failed at T1, of which experiment A is RUNNING,
\* after it had found T2 free.
C17_Witness ==
    /\ xp.pc = "done"
    /\ xp.res = "ResourceInUse"
    /\ xp.labs = {"T1", "T2"}
    /\ xp.cur = "T1"
    /\ xp.todo = {"T1"}
    /\ db_experiments["A"] = [type |-> "T1", status |-> "RUNNING"]
    /\ experiments = ExperimentTypes

(***************************************************************************)
(* Properties of reload_task_plugins                                       *)
(***************************************************************************)
\* The types that a reload_task_plugins call checked before the type at
\* which it is.
CheckedBefore == tp.labs \ tp.todo

\* C18: reload_task_plugins checks a type and hot-swaps it before it
\* considers the next type: a call that fails with ResourceInUse at a later
\* type has hot-swapped the types it checked before.
C18_EarlierTypesSwapped ==
    [](tp.pc = "done" /\ tp.res = "ResourceInUse" => tp.swapped = CheckedBefore)

\* C18 as amended: reload_task_plugins checks every type before it
\* hot-swaps any: a type of which one of the two queries finds a RUNNING or
\* CREATED task makes the call fail with ResourceInUse, and a call that fails
\* so has hot-swapped no type, the types checked before included.
C18_AllCheckedBeforeAnySwap ==
    /\ [][tp.pc = "tasks_created" /\ tp' # tp
            /\ (\E t \in Tasks :
                    /\ task_type[t] = tp.cur
                    /\ t \in tp.active \/ db_tasks[t] = "CREATED")
            => tp'.pc = "done" /\ tp'.res = "ResourceInUse"
               /\ task_plugins' = task_plugins]_vars
    /\ [](tp.pc \in {"wait_lock", "tasks_running", "tasks_created"} => tp.swapped = {})
    /\ [](tp.pc = "done" /\ tp.res = "ResourceInUse" => tp.swapped = {})
    /\ [][task_plugins' # task_plugins
            => tp.pc = "tasks_created" /\ tp.todo = {tp.cur}
               /\ tp'.res \in {"reloaded", "PluginReloadError"}]_vars

\* A call on P1 and P2 has found P2 free and has failed at P1.
C18_Witness ==
    /\ tp.pc = "done"
    /\ tp.res = "ResourceInUse"
    /\ tp.labs = {"P1", "P2"}
    /\ tp.cur = "P1"
    /\ CheckedBefore = {"P2"}
    /\ db_tasks["K1"] \in {"RUNNING", "CREATED"}
    /\ "P2" \notin task_plugins

(***************************************************************************)
(* Properties of fail_running_experiments                                  *)
(***************************************************************************)
\* C19: fail_running_experiments marks every experiment that is RUNNING as
\* FAILED and changes no other experiment, and a second call that follows
\* finds no RUNNING experiment and updates no status.
C19_FailRunningIdempotent ==
    /\ [](fr.pc = "done" =>
            /\ \A e \in fr.running_experiments : db_experiments[e].status = "FAILED"
            /\ \A e \in ExperimentIds : db_experiments[e].status # "RUNNING")
    /\ [][\A e \in ExperimentIds :
             db_experiments'[e] # db_experiments[e]
                => /\ db_experiments[e].status = "RUNNING"
                   /\ db_experiments'[e] = [db_experiments[e] EXCEPT !.status = "FAILED"]]_vars
    /\ [](fr.calls >= 2 /\ fr.pc \in {"failing", "done"}
            => fr.pc = "done" /\ fr.res = "none_running" /\ fr.running_experiments = {})
    /\ [][fr.calls >= 2 /\ fr'.calls >= 2 => db_experiments' = db_experiments]_vars

\* The first call has failed the two RUNNING experiments A and B and has left
\* C COMPLETED, and a second call has returned.
C19_Witness ==
    /\ fr.pc = "done"
    /\ fr.calls = 2
    /\ fr.res = "none_running"
    /\ db_experiments["A"].status = "FAILED"
    /\ db_experiments["B"].status = "FAILED"
    /\ db_experiments["C"].status = "COMPLETED"


\* C20: when a drain ends, every id it drained whose executor cancel had
\* returned is out of the registry, also when the drain ends because the
\* cancel of another of its ids raised.
C20_SuccessfulCancelsRemoved ==
    [][\A i \in 1..Len(drain.ids) :
          (/\ drain.pc = "gathering"
           /\ drain'.pc = "idle"
           /\ drain.st[i] = "ok")
          => drain.ids[i] \notin Ids(submitted_experiments')]_vars

\* The drain as the code has it: a drain that ends with an error leaves the
\* registry as it was, whatever cancels had returned.
C20_FailedDrainKeepsRegistry ==
    [][(/\ drain.pc = "gathering"
        /\ drain'.pc = "idle"
        /\ drain'.res \in CancelErrors
        /\ \E i \in 1..Len(drain.ids) : drain.st[i] \in CancelErrors)
       => submitted_experiments' = submitted_experiments]_vars

\* C21: a drain in which the executor cancel of one of its ids raised ends
\* by raising to its caller (the executor's error when no lookup failed),
\* and the id is in the registry when it ends; a step of the drain changes
\* the registry only when every cancel of the drain has returned.
C21_FailedCancelReportedAndKept ==
    [][/\ (/\ drain.pc = "gathering"
           /\ drain'.pc = "idle"
           /\ \E i \in 1..Len(drain.ids) : drain.st[i] = "ExecutionError")
          => /\ drain'.res \in CancelErrors
             /\ (\A i \in 1..Len(drain.ids) : drain.st[i] # "KeyError")
                   => drain'.res = "ExecutionError"
             /\ \A i \in 1..Len(drain.ids) :
                   drain.st[i] = "ExecutionError"
                      => drain.ids[i] \in Ids(submitted_experiments')
       /\ (/\ drain.pc = "gathering"
           /\ drain' # drain
           /\ submitted_experiments' # submitted_experiments)
          => \A i \in 1..Len(drain.ids) : drain.st[i] = "ok"]_vars

\* A drain ended with the executor's error and both experiments are
\* registered.
C21_Witness ==
    /\ drain.pc = "idle"
    /\ drain.res = "ExecutionError"
    /\ Ids(submitted_experiments) = {"A", "B"}

\* C22: no step hot-swaps the plugin of a device type of a lab that is in
\* use (a RUNNING experiment has the lab in its lab set, or a RUNNING or
\* CREATED standalone task has a device in it).
C22_NoHotSwapOfLabInUse ==
    [][\A l \in Labs :
          lab_in_use(l, db_experiments, db_tasks)
             => device_plugins' \cap lab_device_types[l]
                    = device_plugins \cap lab_device_types[l]]_vars

\* The order the code has: reload_labs hot-swaps plugins in its first step
\* only, before it has the lock and before any usage check.
C22_HotSwapBeforeChecks ==
    [][device_plugins' # device_plugins
          => /\ rl.pc = "idle"
             /\ rl'.pc # "idle"
             /\ device_plugins' \ device_plugins
                    \subseteq UNION {lab_device_types[l] : l \in rl'.labs}]_vars

\* The ids a drain took from the queue are pairwise different.
DrainedOnce == \A i, j \in 1..Len(drain.ids) : drain.ids[i] = drain.ids[j] => i = j

\* C23: a drain of pairwise different ids in which no executor cancel
\* raises ends without error and with none of its ids in the registry,
\* also when a tick removed one of them before the drain.
C23_DrainToleratesRemovedId ==
    [][(/\ drain.pc = "gathering"
        /\ drain'.pc = "idle"
        /\ DrainedOnce
        /\ \A i \in 1..Len(drain.ids) : drain.st[i] # "ExecutionError")
       => /\ drain'.res = "done"
          /\ \A i \in 1..Len(drain.ids) :
                drain.ids[i] \notin Ids(submitted_experiments')]_vars

\* What the code does with an id that is no longer registered: its lookup
\* raises KeyError, and a drain that found such an id ends with an error
\* and leaves the registry as it was.
C23_RemovedIdRaisesKeyError ==
    /\ [][\A i \in 1..Len(drain.ids) :
             (drain.pc = "gathering" /\ drain'.pc = "gathering"
                 /\ drain.st[i] = "pending" /\ drain'.st[i] # "pending")
             => (drain'.st[i] = "KeyError"
                   <=> drain.ids[i] \notin Ids(submitted_experiments))]_vars
    /\ [][(/\ drain.pc = "gathering"
           /\ drain'.pc = "idle"
           /\ \E i \in 1..Len(drain.ids) : drain.st[i] = "KeyError")
          => /\ drain'.res \in CancelErrors
             /\ submitted_experiments' = submitted_experiments]_vars

\* C24: a drain that took an id more than once from the queue, and all of
\* whose cancels returned, ends without error and with none of its ids in
\* the registry.
C24_RepeatedIdDrained ==
    [][(/\ drain.pc = "gathering"
        /\ drain'.pc = "idle"
        /\ ~DrainedOnce
        /\ \A i \in 1..Len(drain.ids) : drain.st[i] = "ok")
       => /\ drain'.res = "done"
          /\ \A i \in 1..Len(drain.ids) :
                drain.ids[i] \notin Ids(submitted_experiments')]_vars

\* What the code does with a repeated id: the deletion loop removes the
\* ids before the second occurrence and ends there with KeyError.
C24_RepeatedIdRaisesKeyError ==
    [][(/\ drain.pc = "gathering"
        /\ drain'.pc = "idle"
        /\ ~DrainedOnce
        /\ \A i \in 1..Len(drain.ids) : drain.st[i] = "ok")
       => /\ drain'.res = "KeyError"
          /\ \E j \in 2..Len(drain.ids) :
                /\ drain.ids[j] \in {drain.ids[i] : i \in 1..(j - 1)}
                /\ \A k \in 1..(j - 1) :
                      drain.ids[k] \notin {drain.ids[i] : i \in 1..(k - 1)}
                /\ Ids(submitted_experiments') =
                      Ids(submitted_experiments) \ {drain.ids[i] : i \in 1..(j - 1)}]_vars

\* The ids registered now that were not registered when the tick started.
AdmittedDuringTick == Ids(submitted_experiments) \ Ids(tick.start)

\* C25: the list a tick goes through is the sorted registry of its start
\* and does not change during the pass; the experiments progressed so far
\* are the first ones of that list, in its order; an experiment admitted
\* during the pass is not progressed by the tick, and the clean-up removes
\* only ids of the snapshot and leaves the admitted ones registered.
C25_TickBoundToSnapshot ==
    /\ [](tick.pc = "running" =>
            /\ tick.snap = get_sorted_experiments(tick.start)
            /\ tick.idx \in 1..(Len(tick.snap) + 1)
            /\ tick.progressed = [i \in 1..(tick.idx - 1) |-> tick.snap[i].id]
            /\ AdmittedDuringTick \cap Range(tick.progressed) = {})
    /\ [][(tick.pc = "running" /\ tick'.pc = "running")
          => tick'.snap = tick.snap /\ tick'.start = tick.start]_vars
    /\ [][(tick.pc = "running" /\ tick'.pc = "idle")
          => /\ Ids(submitted_experiments) \ Ids(submitted_experiments')
                    \subseteq Ids(tick.snap)
             /\ AdmittedDuringTick \subseteq Ids(submitted_experiments')]_vars

\* The pass over a snapshot of A alone is finished, B was admitted during
\* it and has not been progressed.
C25_Witness ==
    /\ tick.pc = "running"
    /\ tick.idx > Len(tick.snap)
    /\ Ids(tick.start) = {"A"}
    /\ tick.progressed = <<"A">>
    /\ Ids(submitted_experiments) = {"A", "B"}
====
